---- MODULE Spec2Model ----
(***************************************************************************)
(* Hybrid anomaly detection of the SIH ML services: the harvest pipeline   *)
(* (weekly aggregation, rule engine, outlier label, OR-fusion, training-   *)
(* time contamination estimate, repeated detection and evaluation), the    *)
(* scan-log preprocessor of the counterfeit pipeline (per-batch interval   *)
(* and distance derivation), and the detection and analysis endpoints of   *)
(* the API server that call them.                                          *)
(***************************************************************************)
EXTENDS Integers, Sequences, FiniteSets, TLC

VARIABLES
    pc,               \* which entry point has run: "start", "detected", "trained", "preprocessed", "estimated", ...
    raised,           \* exception that left the entry point (or was caught by the handler), "none" otherwise
    df_harvest,       \* the caller's harvest frame (detect_weekly_anomalies adds columns to it)
    herb_rules_df,    \* the ruleset frame handed to the entry point
    weekly_harvest,   \* frame returned by detect_weekly_anomalies
    weekly,           \* weekly frame built by train_model.main (with rule_anomaly)
    contamination,    \* contamination handed to IsolationForest by train_model.main
    scan_logs,        \* rows of the CSV read by preprocess_scan_logs, in file order
    scan_df,          \* frame returned by preprocess_scan_logs
    rate_a, rate_b,   \* two rule-violation rates given to the estimator (as count/size)
    est_a, est_b,     \* their contamination estimates
    iso_forest,       \* the trained outlier model: the feature rows it labels -1
    metrics,          \* (precision, recall, f1) returned by evaluate_model
    loaded,           \* ml_api_server: the globals load_models found on disk
    request,          \* ml_api_server: the request a handler received
    response,         \* ml_api_server: the status code and JSON body it answered
    X,                \* the feature matrix last handed to an outlier model's predict / decision_function
    upload_folder,    \* ml_api_server: the files in UPLOAD_FOLDER, by name
    threads           \* ml_api_server: the requests being handled at once, one per server thread

vars == <<pc, raised, df_harvest, herb_rules_df, weekly_harvest, weekly,
          contamination, scan_logs, scan_df, rate_a, rate_b, est_a, est_b,
          iso_forest, metrics, loaded, request, response,
          X, upload_folder, threads>>

----------------------------------------------------------------------------
(* Bounds of the explored inputs *)

MaxEvents == 2        \* harvest events in one batch
MaxTrain  == 4        \* harvest events in one (larger) training file
MaxRules  == 1        \* rows of the ruleset frame
MaxScans  == 3        \* scan-log rows in one CSV
MaxDen    == 5        \* largest batch size behind a rule-violation rate

----------------------------------------------------------------------------
(* Generic helpers over frames (sequences of row records) *)

NaN == -1      \* a missing value; the quantities, hours and degrees used are never negative

\* 'sum': a missing value is skipped
RECURSIVE SeqSum(_)
SeqSum(s) ==
    IF s = <<>> THEN 0
    ELSE (IF Head(s) = NaN THEN 0 ELSE Head(s)) + SeqSum(Tail(s))

SeqsUpTo(S, n) == UNION {[1..k -> S] : k \in 0..n}

RECURSIVE Gcd(_, _)
Gcd(a, b) == IF b = 0 THEN a ELSE Gcd(b, a % b)

\* 'mean' aggregation, kept exact as a reduced fraction <<numerator, denominator>>
\* a missing value is skipped; the mean of nothing is missing
Mean(s) ==
    LET vals == SelectSeq(s, LAMBDA x : x # NaN)
        t == SeqSum(vals)
        g == Gcd(t, Len(vals))
    IN  IF vals = <<>> THEN <<NaN, 1>>
        ELSE <<t \div g, Len(vals) \div g>>

----------------------------------------------------------------------------
(* ISO calendar of a timestamp (Series.dt.isocalendar) *)

IsLeap(y) == (y % 4 = 0) /\ ((y % 100 # 0) \/ (y % 400 = 0))

DaysBeforeYear(y) ==
    LET p == y - 1 IN p * 365 + (p \div 4) - (p \div 100) + (p \div 400)

DaysInMonth(y, m) ==
    CASE m \in {4, 6, 9, 11} -> 30
      [] m = 2 -> IF IsLeap(y) THEN 29 ELSE 28
      [] OTHER -> 31

RECURSIVE DaysBeforeMonth(_, _)
DaysBeforeMonth(y, m) ==
    IF m = 1 THEN 0 ELSE DaysBeforeMonth(y, m - 1) + DaysInMonth(y, m - 1)

Ordinal(ts) == DaysBeforeYear(ts.y) + DaysBeforeMonth(ts.y, ts.m) + ts.d

\* ordinal of the Monday that starts ISO week 1 of year y
IsoWeek1Monday(y) ==
    LET firstday     == DaysBeforeYear(y) + 1
        firstweekday == (firstday + 6) % 7
        monday       == firstday - firstweekday
    IN  IF firstweekday > 3 THEN monday + 7 ELSE monday

\* variant: the calendar year and the week counted from 1 January
calendar_week(ts) ==
    [year |-> ts.y,
     week |-> ((Ordinal(ts) - DaysBeforeYear(ts.y) - 1) \div 7) + 1]

isocalendar(ts) ==
    LET today == Ordinal(ts)
        w0    == today - IsoWeek1Monday(ts.y)
    IN  IF w0 < 0
        THEN [year |-> ts.y - 1,
              week |-> ((today - IsoWeek1Monday(ts.y - 1)) \div 7) + 1]
        ELSE IF (w0 \div 7) >= 52 /\ today >= IsoWeek1Monday(ts.y + 1)
        THEN [year |-> ts.y + 1, week |-> 1]
        ELSE [year |-> ts.y, week |-> (w0 \div 7) + 1]

----------------------------------------------------------------------------
(* Input domains *)

FarmerIds  == {1, 2}
PlantOrder == <<"Ashwagandha", "Tulsi">>          \* in string order
PlantTypes == {PlantOrder[i] : i \in 1..Len(PlantOrder)}
RegionIds  == {"R1", "R2"}
Timestamps == {[y |-> 2024, m |-> 12, d |-> 30],   \* Monday, ISO 2025-W01
               [y |-> 2025, m |-> 1,  d |-> 2],    \* Thursday, ISO 2025-W01
               [y |-> 2025, m |-> 1,  d |-> 6]}    \* Monday, ISO 2025-W02
NaT == [y |-> 0, m |-> 0, d |-> 0]                 \* a missing timestamp
GeoLats    == {10}
GeoLons    == {77}

FirstTimestamp == [y |-> 2024, m |-> 12, d |-> 30]
LaterTimestamps == Timestamps \ {FirstTimestamp}
Quantities == {1, 2}

\* farmer 1 harvests Tulsi in the first week in every quantity and region,
\* and Ashwagandha in a small approved and a large unapproved lot; the later
\* weeks and farmer 2 add one Tulsi harvest each, so that every part of the
\* group key (farmer, plant, year, week) takes two values
HarvestEvents ==
    [farmer_id : {1}, plant_type : {"Tulsi"}, timestamp : {FirstTimestamp},
     quantity_harvested : Quantities, region_id : RegionIds,
     geo_lat : GeoLats, geo_lon : GeoLons]
    \cup
    [farmer_id : {1}, plant_type : {"Ashwagandha"}, timestamp : {FirstTimestamp},
     quantity_harvested : {1}, region_id : {"R1"},
     geo_lat : GeoLats, geo_lon : GeoLons]
    \cup
    [farmer_id : {1}, plant_type : {"Ashwagandha"}, timestamp : {FirstTimestamp},
     quantity_harvested : {2}, region_id : {"R2"},
     geo_lat : GeoLats, geo_lon : GeoLons]
    \cup
    [farmer_id : {1}, plant_type : {"Tulsi"}, timestamp : LaterTimestamps,
     quantity_harvested : {1}, region_id : {"R1"},
     geo_lat : GeoLats, geo_lon : GeoLons]
    \cup
    [farmer_id : FarmerIds \ {1}, plant_type : {"Tulsi"},
     timestamp : {FirstTimestamp},
     quantity_harvested : {1}, region_id : {"R1"},
     geo_lat : GeoLats, geo_lon : GeoLons]

HarvestFrames == SeqsUpTo(HarvestEvents, MaxEvents)

RuleRows ==
    [plant_type : PlantTypes, max_quantity_per_week : Quantities,
     approved_regions : {{"R1"}}]

RuleFrames == SeqsUpTo(RuleRows, MaxRules)

----------------------------------------------------------------------------
(* rules.py *)

Returns(v) == [raised |-> "none", value |-> v]
Raises(e)  == [raised |-> e, value |-> <<>>]

OverQuantity(plant) ==
    CASE plant = "Ashwagandha" -> "Over Quantity (Ashwagandha)"
      [] plant = "Tulsi"       -> "Over Quantity (Tulsi)"

OutsideRegion(plant) ==
    CASE plant = "Ashwagandha" -> "Outside Approved Region (Ashwagandha)"
      [] plant = "Tulsi"       -> "Outside Approved Region (Tulsi)"

UnknownPlant == "Unknown Plant Type"

\* herb_rules_df[herb_rules_df['plant_type'] == row['plant_type']]
HerbInfo(row, rules) ==
    SelectSeq(rules, LAMBDA r : r.plant_type = row.plant_type)

\* variant: an unmatched plant type passes without a violation
rule_unknown_passes(row, rules) ==
    LET herb_info == HerbInfo(row, rules)
    IN  IF herb_info # <<>>
        THEN LET max_qty         == herb_info[1].max_quantity_per_week
                 allowed_regions == herb_info[1].approved_regions
                 over    == IF row.quantity_harvested > max_qty
                            THEN <<OverQuantity(row.plant_type)>> ELSE <<>>
                 outside == IF row.region_id \notin allowed_regions
                            THEN <<OutsideRegion(row.plant_type)>> ELSE <<>>
             IN  Returns(over \o outside)
        ELSE Returns(<<>>)

\* variant: .values[0] is read without the emptiness test
rule_unguarded_lookup(row, rules) ==
    LET herb_info == HerbInfo(row, rules)
    IN  IF herb_info = <<>> THEN Raises("IndexError")
        ELSE LET max_qty         == herb_info[1].max_quantity_per_week
                 allowed_regions == herb_info[1].approved_regions
                 over    == IF row.quantity_harvested > max_qty
                            THEN <<OverQuantity(row.plant_type)>> ELSE <<>>
                 outside == IF row.region_id \notin allowed_regions
                            THEN <<OutsideRegion(row.plant_type)>> ELSE <<>>
             IN  Returns(over \o outside)

\* variant: the quantity test is >= instead of >
rule_quantity_geq(row, rules) ==
    LET herb_info == HerbInfo(row, rules)
    IN  IF herb_info # <<>>
        THEN LET max_qty         == herb_info[1].max_quantity_per_week
                 allowed_regions == herb_info[1].approved_regions
                 over    == IF row.quantity_harvested >= max_qty
                            THEN <<OverQuantity(row.plant_type)>> ELSE <<>>
                 outside == IF row.region_id \notin allowed_regions
                            THEN <<OutsideRegion(row.plant_type)>> ELSE <<>>
             IN  Returns(over \o outside)
        ELSE Returns(<<UnknownPlant>>)

rule_based_anomalies_weekly(row, rules) ==
    LET herb_info == HerbInfo(row, rules)
    IN  IF herb_info # <<>>
        THEN LET max_qty         == herb_info[1].max_quantity_per_week
                 allowed_regions == herb_info[1].approved_regions
                 over    == IF row.quantity_harvested > max_qty
                            THEN <<OverQuantity(row.plant_type)>> ELSE <<>>
                 outside == IF row.region_id \notin allowed_regions
                            THEN <<OutsideRegion(row.plant_type)>> ELSE <<>>
             IN  Returns(over \o outside)
        ELSE Returns(<<UnknownPlant>>)

----------------------------------------------------------------------------
(* Weekly aggregation: groupby(['farmer_id','plant_type','year','week']).agg *)

\* isocalendar of every timestamp of the input domain
IsoCal ==
    [ts \in Timestamps \cup {NaT} |->
        IF ts = NaT THEN [year |-> NaN, week |-> NaN] ELSE isocalendar(ts)]

PlantRank(p) == CHOOSE i \in 1..Len(PlantOrder) : PlantOrder[i] = p

\* variant: the log scaling of the features is done in the caller's frame
\* (seen here as the quantity column growing by one)
WithWeekYearScaledInPlace(df) ==
    [i \in 1..Len(df) |->
        [farmer_id |-> df[i].farmer_id, plant_type |-> df[i].plant_type,
         timestamp |-> df[i].timestamp,
         quantity_harvested |-> df[i].quantity_harvested + 1,
         region_id |-> df[i].region_id,
         geo_lat |-> df[i].geo_lat, geo_lon |-> df[i].geo_lon,
         week |-> IsoCal[df[i].timestamp].week,
         year |-> IsoCal[df[i].timestamp].year]]

\* the week/year columns added to the caller's frame
WithWeekYear(df) ==
    [i \in 1..Len(df) |->
        [farmer_id |-> df[i].farmer_id, plant_type |-> df[i].plant_type,
         timestamp |-> df[i].timestamp,
         quantity_harvested |-> df[i].quantity_harvested,
         region_id |-> df[i].region_id,
         geo_lat |-> df[i].geo_lat, geo_lon |-> df[i].geo_lon,
         week |-> IsoCal[df[i].timestamp].week,
         year |-> IsoCal[df[i].timestamp].year]]

\* variant: the frame is grouped by week and year before farmer and plant
GroupKeyWeekFirst(r) == <<r.week, r.year, r.farmer_id, PlantRank(r.plant_type)>>

GroupKey(r) == <<r.farmer_id, PlantRank(r.plant_type), r.year, r.week>>

RECURSIVE TupleLess(_, _)
TupleLess(a, b) ==
    IF a = <<>> THEN FALSE
    ELSE Head(a) < Head(b) \/ (Head(a) = Head(b) /\ TupleLess(Tail(a), Tail(b)))

RECURSIVE SortedKeys(_)
SortedKeys(S) ==
    IF S = {} THEN <<>>
    ELSE LET k == CHOOSE x \in S : \A z \in S \ {x} : TupleLess(x, z)
         IN  <<k>> \o SortedKeys(S \ {k})

\* variant: the quantity is aggregated with 'first' instead of 'sum'
WeeklyAggFirstQuantity(dfw) ==
    LET keys == SortedKeys({GroupKey(dfw[i]) : i \in 1..Len(dfw)})
    IN  [g \in 1..Len(keys) |->
            LET grp == SelectSeq(dfw, LAMBDA r : GroupKey(r) = keys[g])
            IN  [farmer_id |-> grp[1].farmer_id,
                 plant_type |-> grp[1].plant_type,
                 year |-> grp[1].year,
                 week |-> grp[1].week,
                 quantity_harvested |-> grp[1].quantity_harvested,
                 region_id |-> grp[1].region_id,
                 geo_lat |-> Mean([k \in 1..Len(grp) |-> grp[k].geo_lat]),
                 geo_lon |-> Mean([k \in 1..Len(grp) |-> grp[k].geo_lon])]]

\* variant: region_id is aggregated with 'last' instead of 'first'
WeeklyAggLastRegion(dfw) ==
    LET keys == SortedKeys({GroupKey(dfw[i]) : i \in
                               {j \in 1..Len(dfw) : dfw[j].week # NaN}})
    IN  [g \in 1..Len(keys) |->
            LET grp == SelectSeq(dfw, LAMBDA r : GroupKey(r) = keys[g])
            IN  [farmer_id |-> grp[1].farmer_id,
                 plant_type |-> grp[1].plant_type,
                 year |-> grp[1].year,
                 week |-> grp[1].week,
                 quantity_harvested |->
                     SeqSum([k \in 1..Len(grp) |-> grp[k].quantity_harvested]),
                 region_id |-> grp[Len(grp)].region_id,
                 geo_lat |-> Mean([k \in 1..Len(grp) |-> grp[k].geo_lat]),
                 geo_lon |-> Mean([k \in 1..Len(grp) |-> grp[k].geo_lon])]]

\* one row per group key, keys in sorted order (groupby sorts its keys and
\* leaves out the rows whose key has a missing part)
WeeklyAgg(dfw) ==
    LET keys == SortedKeys({GroupKey(dfw[i]) : i \in
                               {j \in 1..Len(dfw) : dfw[j].week # NaN}})
    IN  [g \in 1..Len(keys) |->
            LET grp == SelectSeq(dfw, LAMBDA r : GroupKey(r) = keys[g])
            IN  [farmer_id |-> grp[1].farmer_id,
                 plant_type |-> grp[1].plant_type,
                 year |-> grp[1].year,
                 week |-> grp[1].week,
                 quantity_harvested |->
                     SeqSum([k \in 1..Len(grp) |-> grp[k].quantity_harvested]),
                 region_id |-> grp[1].region_id,
                 geo_lat |-> Mean([k \in 1..Len(grp) |-> grp[k].geo_lat]),
                 geo_lon |-> Mean([k \in 1..Len(grp) |-> grp[k].geo_lon])]]

\* the feature row the outlier model sees differs between two records only if
\* one of the three feature columns differs (log1p and scaling are injective)
Features(r) == <<r.quantity_harvested, r.geo_lat, r.geo_lon>>

----------------------------------------------------------------------------
(* anomaly_detection.py *)

\* no matrix has been handed to a model
NoMatrix == [columns |-> <<>>, rows |-> 0]

\* no file is in the upload folder
NoFiles == [name \in {} |-> <<>>]

\* X_scaled: the three feature columns of the weekly frame, with what was
\* done to each before iso_forest.predict: np.log1p on the quantity, then
\* StandardScaler().fit_transform on the whole matrix
HarvestMatrix(wk) ==
    [columns |-> <<[name |-> "quantity_harvested",
                    steps |-> <<"log1p", "fit_transform">>],
                   [name |-> "geo_lat", steps |-> <<"fit_transform">>],
                   [name |-> "geo_lon", steps |-> <<"fit_transform">>]>>,
     rows |-> Len(wk)]

\* a trained model: the feature rows it isolates, and whether its
\* scikit-learn release scores a matrix holding NaN or rejects it
\* iso_forest.predict: 1 (inlier) or -1 (outlier) per feature row
Predict(model, r) == IF Features(r) \in model.outliers THEN -1 ELSE 1

\* .map({1: 0, -1: 1})
MapLabel(p) == IF p = 1 THEN 0 ELSE 1

\* variant: both signals are required
final_anomaly_and(rule_anomalies, iforest_anomaly) ==
    IF Len(rule_anomalies) > 0 /\ iforest_anomaly = 1 THEN 1 ELSE 0

\* variant: the model's label is left out of the final flag
final_anomaly_rules_only(rule_anomalies, iforest_anomaly) ==
    IF Len(rule_anomalies) > 0 THEN 1 ELSE 0

final_anomaly(rule_anomalies, iforest_anomaly) ==
    IF Len(rule_anomalies) > 0 \/ iforest_anomaly = 1 THEN 1 ELSE 0

Flagged(wk, rules, model) ==
    [i \in 1..Len(wk) |->
        LET ra == rule_based_anomalies_weekly(wk[i], rules).value
            ml == MapLabel(Predict(model, wk[i]))
        IN  [farmer_id |-> wk[i].farmer_id, plant_type |-> wk[i].plant_type,
             year |-> wk[i].year, week |-> wk[i].week,
             quantity_harvested |-> wk[i].quantity_harvested,
             region_id |-> wk[i].region_id,
             geo_lat |-> wk[i].geo_lat, geo_lon |-> wk[i].geo_lon,
             rule_anomalies |-> ra,
             iforest_anomaly |-> ml,
             final_anomaly |-> final_anomaly(ra, ml)]]

RuleError(wk, rules) ==
    \E i \in 1..Len(wk) : rule_based_anomalies_weekly(wk[i], rules).raised # "none"

FeaturesHaveNaN(wk) ==
    \E i \in 1..Len(wk) : wk[i].geo_lat[1] = NaN \/ wk[i].geo_lon[1] = NaN

NoModel == [outliers |-> {}, allow_nan |-> FALSE]

\* what a call leaves behind: the exception it raised ("none" when it
\* returned), the caller's frame as the call left it, the returned frame,
\* and the matrix it handed to iso_forest.predict
detect_weekly_anomalies(df, herb_rules, model) ==
    LET dfw == WithWeekYear(df)
        wk  == WeeklyAgg(dfw)
    IN  IF RuleError(wk, herb_rules)
        THEN [raised |-> "IndexError", df |-> dfw, value |-> <<>>,
              X |-> NoMatrix]
        ELSE IF wk = <<>>
        THEN \* StandardScaler.fit_transform rejects a frame of 0 rows
             [raised |-> "ValueError", df |-> dfw, value |-> <<>>,
              X |-> NoMatrix]
        ELSE IF FeaturesHaveNaN(wk) /\ ~model.allow_nan
        THEN \* iso_forest.predict rejects the matrix
             [raised |-> "ValueError", df |-> dfw, value |-> <<>>,
              X |-> HarvestMatrix(wk)]
        ELSE [raised |-> "none", df |-> dfw,
              value |-> Flagged(wk, herb_rules, model),
              X |-> HarvestMatrix(wk)]

\* the models that differ on a frame: one per set of its weekly feature rows
ModelsFor(df) ==
    LET wk == WeeklyAgg(WithWeekYear(df))
    IN  [outliers : SUBSET {Features(wk[i]) : i \in 1..Len(wk)},
         allow_nan : IF FeaturesHaveNaN(wk) THEN BOOLEAN ELSE {FALSE}]

\* run_detection.main: load the events, the rules and the model, then detect
DetectWeeklyAnomalies ==
    /\ pc = "start"
    /\ \E df \in HarvestFrames, rules \in RuleFrames :
          \E model \in ModelsFor(df) :
             LET run == detect_weekly_anomalies(df, rules, model)
             IN  /\ df_harvest' = run.df
                 /\ herb_rules_df' = rules
                 /\ iso_forest' = IF run.raised = "none" THEN model ELSE NoModel
                 /\ raised' = run.raised
                 /\ weekly_harvest' = run.value
                 /\ X' = run.X
    /\ pc' = "detected"
    /\ UNCHANGED <<weekly, contamination, scan_logs, scan_df,
                   rate_a, rate_b, est_a, est_b,
                   metrics, loaded, request, response,
                   upload_folder, threads>>

----------------------------------------------------------------------------
(* IEEE-754 binary64 values, as far as train_model.main needs them.        *)
(* A value is (hi * 2^26 + lo) * 2^(exp - 52): a 53-bit mantissa split     *)
(* into its upper 27 bits (hi, leading bit set unless the value is zero)   *)
(* and its lower 26 bits (lo).                                             *)

LoBits == 26
LoBase == 67108864        \* 2^26
HiBase == 134217728       \* 2^27

DZero == [exp |-> -1074, hi |-> 0, lo |-> 0]

DLess(a, b) ==
    \/ a.exp < b.exp
    \/ a.exp = b.exp /\ a.hi < b.hi
    \/ a.exp = b.exp /\ a.hi = b.hi /\ a.lo < b.lo

DLeq(a, b) == ~DLess(b, a)

\* round-to-nearest, ties-to-even, given the guard bit and the sticky bit
RoundEven(exp, hi, lo, guard, sticky) ==
    IF guard = 1 /\ (sticky = 1 \/ lo % 2 = 1)
    THEN IF lo + 1 < LoBase THEN [exp |-> exp, hi |-> hi, lo |-> lo + 1]
         ELSE IF hi + 1 < HiBase THEN [exp |-> exp, hi |-> hi + 1, lo |-> 0]
         ELSE [exp |-> exp + 1, hi |-> HiBase \div 2, lo |-> 0]
    ELSE [exp |-> exp, hi |-> hi, lo |-> lo]

RECURSIVE Pow2(_)
Pow2(s) == IF s = 0 THEN 1 ELSE 2 * Pow2(s - 1)

\* the next `count` quotient bits of rem / n (rem < n); <<quotient, remainder>>
RECURSIVE Quot(_, _, _)
Quot(rem, n, count) ==
    IF count = 0 THEN <<0, rem>>
    ELSE LET bit  == IF 2 * rem >= n THEN 1 ELSE 0
             rest == Quot(2 * rem - bit * n, n, count - 1)
         IN  <<bit * Pow2(count - 1) + rest[1], rest[2]>>

RECURSIVE Shift(_, _)
Shift(k, n) == IF k >= n THEN 0 ELSE 1 + Shift(2 * k, n)

\* float64 division k / n of two small integers, 0 <= k <= n, n > 0
FloatDiv(k, n) ==
    IF k = 0 THEN DZero
    ELSE LET s   == Shift(k, n)
             qh  == Quot(k * Pow2(s) - n, n, LoBits)
             ql  == Quot(qh[2], n, LoBits)
             rem == ql[2]
         IN  RoundEven(-s, LoBase + qh[1], ql[1],
                       IF 2 * rem >= n THEN 1 ELSE 0,
                       IF 2 * rem # n /\ rem # 0 THEN 1 ELSE 0)

\* float64 product x * 1.5: the exact 3 * mantissa (54 or 55 bits), rounded
Mul1_5(x) ==
    IF x = DZero THEN DZero
    ELSE LET lo3 == (3 * x.lo) % LoBase
             hi3 == 3 * x.hi + ((3 * x.lo) \div LoBase)
         IN  IF hi3 >= 2 * HiBase
             THEN RoundEven(x.exp + 1, hi3 \div 4,
                            (hi3 % 4) * (LoBase \div 4) + (lo3 \div 4),
                            (lo3 \div 2) % 2, lo3 % 2)
             ELSE RoundEven(x.exp, hi3 \div 2,
                            (hi3 % 2) * (LoBase \div 2) + (lo3 \div 2),
                            lo3 % 2, 0)

Half == FloatDiv(1, 2)         \* the literal 0.5

\* the mantissa (hi, lo) shifted right by d bits, the bits shifted out dropped
ShiftRight(x, d) ==
    IF d = 0 THEN [hi |-> x.hi, lo |-> x.lo]
    ELSE IF d <= LoBits
    THEN [hi |-> x.hi \div Pow2(d),
          lo |-> (x.hi % Pow2(d)) * Pow2(LoBits - d) + (x.lo \div Pow2(d))]
    ELSE [hi |-> 0, lo |-> x.hi \div Pow2(d - LoBits)]

\* bit i of the mantissa (bit 0 is the lowest)
BitAt(x, i) ==
    IF i < LoBits THEN (x.lo \div Pow2(i)) % 2
    ELSE (x.hi \div Pow2(i - LoBits)) % 2

\* whether a bit below bit n of the mantissa is set
LowBitsSet(x, n) ==
    IF n <= LoBits THEN x.lo % Pow2(n) # 0
    ELSE x.lo # 0 \/ x.hi % Pow2(n - LoBits) # 0

\* float64 sum a + b of two values >= 0: the exact sum of the mantissas at
\* the larger exponent, rounded to nearest, ties to even
DAdd(a, b) ==
    IF a = DZero THEN b
    ELSE IF b = DZero THEN a
    ELSE LET big   == IF DLess(a, b) THEN b ELSE a
             small == IF DLess(a, b) THEN a ELSE b
             d     == big.exp - small.exp
         IN  IF d > 54 THEN big
             ELSE LET sh     == ShiftRight(small, d)
                      guard  == IF d = 0 THEN 0 ELSE BitAt(small, d - 1)
                      sticky == IF d > 1 /\ LowBitsSet(small, d - 1) THEN 1 ELSE 0
                      los    == big.lo + sh.lo
                      his    == big.hi + sh.hi + (los \div LoBase)
                      lo     == los % LoBase
                  IN  IF his >= HiBase
                      THEN RoundEven(big.exp + 1, his \div 2,
                                     (his % 2) * (LoBase \div 2) + (lo \div 2),
                                     lo % 2,
                                     IF guard = 1 \/ sticky = 1 THEN 1 ELSE 0)
                      ELSE RoundEven(big.exp, his, lo, guard, sticky)

\* round(x, 3) of 0 <= x < 1: the float64 nearest to the multiple of 0.001
\* nearest to x.  The upper 20 bits of the mantissa give a k with
\* k - 1 <= 1000 * x < k + 2; x is then compared with the float64 nearest
\* to each midpoint (2j +- 1) / 2000 for j in k - 1 .. k + 2.  An x that is
\* itself that float64 may be rounded either way, and both results are in
\* the set
Round3(x) ==
    LET k == IF x = DZero \/ 19 - x.exp > 30 THEN 0
             ELSE ((x.hi \div 128) * 1000) \div Pow2(19 - x.exp)
    IN  {FloatDiv(j, 1000) :
            j \in {i \in (k - 1)..(k + 2) :
                      /\ 0 <= i /\ i < 1000
                      /\ i = 0 \/ DLeq(FloatDiv(2 * i - 1, 2000), x)
                      /\ DLeq(x, FloatDiv(2 * i + 1, 2000))}}

\* Python's min(a, b): a unless b < a
PyMin(a, b) == IF DLess(b, a) THEN b ELSE a

----------------------------------------------------------------------------
(* train_model.py *)

\* variant: the 0.5 ceiling is missing
estimate_uncapped(rate) == Mul1_5(rate)

\* variant: the rate is used as it is, without the factor 1.5
estimate_unscaled(rate) == PyMin(rate, Half)

\* contamination = rate * 1.5 ; contamination = min(contamination, 0.5)
estimate(rate) == PyMin(Mul1_5(rate), Half)

WithRuleAnomaly(wk, rules) ==
    [i \in 1..Len(wk) |->
        [farmer_id |-> wk[i].farmer_id, plant_type |-> wk[i].plant_type,
         year |-> wk[i].year, week |-> wk[i].week,
         quantity_harvested |-> wk[i].quantity_harvested,
         region_id |-> wk[i].region_id,
         geo_lat |-> wk[i].geo_lat, geo_lon |-> wk[i].geo_lon,
         rule_anomaly |->
             IF Len(rule_based_anomalies_weekly(wk[i], rules).value) > 0
             THEN 1 ELSE 0]]

\* weekly['rule_anomaly'].mean(): float64 sum over float64 count
RuleAnomalyMean(w) ==
    FloatDiv(SeqSum([k \in 1..Len(w) |-> w[k].rule_anomaly]), Len(w))

train_main(df, rules) ==
    /\ pc = "start"
    /\ LET dfw == WithWeekYear(df)
           wk  == WeeklyAgg(dfw)
           w   == WithRuleAnomaly(wk, rules)
       IN  /\ df_harvest' = dfw
           /\ herb_rules_df' = rules
           /\ IF RuleError(wk, rules)
              THEN /\ raised' = "IndexError"
                   /\ UNCHANGED <<weekly, contamination>>
              ELSE IF wk = <<>>
              THEN \* no weekly rows: nothing to scale or fit
                   /\ raised' = "ValueError"
                   /\ UNCHANGED <<weekly, contamination>>
              ELSE /\ raised' = "none"
                   /\ weekly' = w
                   /\ contamination' = estimate(RuleAnomalyMean(w))
    /\ pc' = "trained"
    /\ UNCHANGED <<weekly_harvest, scan_logs, scan_df,
                   rate_a, rate_b, est_a, est_b,
                   iso_forest, metrics, loaded, request, response,
                   X, upload_folder, threads>>

\* the training files: every small frame, and larger files of distinct
\* events listed in (farmer, plant, date, quantity, region) order
EventKey(e) ==
    <<e.farmer_id, PlantRank(e.plant_type), Ordinal(e.timestamp),
      e.quantity_harvested, IF e.region_id = "R1" THEN 1 ELSE 2>>

InKeyOrder(S) ==
    LET keys == SortedKeys({EventKey(e) : e \in S})
    IN  [i \in 1..Len(keys) |-> CHOOSE e \in S : EventKey(e) = keys[i]]

TrainFrames ==
    HarvestFrames \cup
    {InKeyOrder(S) : S \in {T \in SUBSET HarvestEvents : Cardinality(T) <= MaxTrain}}

TrainModel ==
    \E df \in TrainFrames, rules \in RuleFrames : train_main(df, rules)

----------------------------------------------------------------------------
(* The estimator on its own: two rates in, two estimates out *)

Rates == {r \in (0..MaxDen) \X (1..MaxDen) : r[1] <= r[2]}

Estimate ==
    /\ pc = "start"
    /\ est_a' = estimate(FloatDiv(rate_a[1], rate_a[2]))
    /\ est_b' = estimate(FloatDiv(rate_b[1], rate_b[2]))
    /\ pc' = "estimated"
    /\ UNCHANGED <<raised, df_harvest, herb_rules_df, weekly_harvest, weekly,
                   contamination, scan_logs, scan_df, rate_a, rate_b,
                   iso_forest, metrics, loaded, request, response,
                   X, upload_folder, threads>>

----------------------------------------------------------------------------
(* counterfeit_detection_ml/src/preprocess.py *)

BatchOrder == <<"B1", "B2">>                        \* in string order
BatchIds   == {BatchOrder[i] : i \in 1..Len(BatchOrder)}
BatchRank(b) == CHOOSE i \in 1..Len(BatchOrder) : BatchOrder[i] = b

\* scans lie on one meridian: lat in whole degrees, lon fixed
ScanHours == {0, 1, 2}
ScanLats == {0, 1}
ScanLons == {77}

\* every scan of a registered retailer, and one scan of an unregistered one
ScanRows ==
    [batch_id : BatchIds, timestamp : ScanHours, lat : ScanLats,
     lon : ScanLons, retailer_id : {"R1"}]
    \cup
    [batch_id : {"B1"}, timestamp : {0}, lat : {0},
     lon : ScanLons, retailer_id : {"R9"}]

ScanFiles == SeqsUpTo(ScanRows, MaxScans)

Abs(x) == IF x < 0 THEN -x ELSE x

\* geopy geodesic(...).km between two points of one meridian: about 111 km
\* per degree of latitude, 0 exactly when the two points coincide
KmPerDegree == 111
geodesic_km(lat1, lon1, lat2, lon2) ==
    KmPerDegree * (Abs(lat1 - lat2) + Abs(lon1 - lon2))

\* variant: a row also goes before the rows it ties with
ScanLessOrTied(a, b) ==
    \/ BatchRank(a.batch_id) < BatchRank(b.batch_id)
    \/ a.batch_id = b.batch_id /\ a.timestamp <= b.timestamp

ScanLess(a, b) ==
    \/ BatchRank(a.batch_id) < BatchRank(b.batch_id)
    \/ a.batch_id = b.batch_id /\ a.timestamp < b.timestamp

\* df.sort_values(['batch_id', 'timestamp']): stable insertion into a sorted prefix
RECURSIVE InsertSorted(_, _)
InsertSorted(sorted, row) ==
    IF sorted = <<>> THEN <<row>>
    ELSE IF ScanLess(row, Head(sorted)) THEN <<row>> \o sorted
    ELSE <<Head(sorted)>> \o InsertSorted(Tail(sorted), row)

RECURSIVE sort_values(_)
sort_values(df) ==
    IF df = <<>> THEN <<>>
    ELSE InsertSorted(sort_values(SubSeq(df, 1, Len(df) - 1)), df[Len(df)])

\* df.groupby('batch_id')['timestamp'].shift(1) on the sorted frame
prev_time(df, i) ==
    IF i > 1 /\ df[i - 1].batch_id = df[i].batch_id
    THEN df[i - 1].timestamp ELSE NaN

RawInterval(df, i) ==
    IF prev_time(df, i) = NaN THEN NaN ELSE df[i].timestamp - prev_time(df, i)

\* Series.max(): NaN is skipped; NaN when nothing is left
RECURSIVE SeqMax(_)
SeqMax(s) ==
    IF s = <<>> THEN NaN
    ELSE LET m == SeqMax(Tail(s))
         IN  IF Head(s) = NaN THEN m
             ELSE IF m = NaN \/ Head(s) > m THEN Head(s) ELSE m

\* variant: fillna(0)
FillValueZero(df) == 0

\* fillna(df['scan_interval_hours'].max(), inplace=True), the column being
\* updated in place (pandas without copy-on-write)
FillValue(df) == SeqMax([i \in 1..Len(df) |-> RawInterval(df, i)])

scan_interval_hours(df, i) ==
    IF RawInterval(df, i) = NaN THEN FillValue(df) ELSE RawInterval(df, i)

\* df[(batch_id == row.batch_id) & (timestamp == row.prev_time)].iloc[0]
PrevRow(df, i) ==
    LET j == CHOOSE j \in 1..Len(df) :
                 /\ df[j].batch_id = df[i].batch_id
                 /\ df[j].timestamp = prev_time(df, i)
                 /\ \A k \in 1..(j - 1) :
                        ~(df[k].batch_id = df[i].batch_id
                          /\ df[k].timestamp = prev_time(df, i))
    IN  df[j]

\* variant: the previous row of the whole frame, not of the batch, is used
compute_distance_ungrouped(df, i) ==
    IF i = 1 THEN 0
    ELSE geodesic_km(df[i].lat, df[i].lon, df[i - 1].lat, df[i - 1].lon)

compute_distance(df, i) ==
    IF prev_time(df, i) = NaN THEN 0
    ELSE LET prev == PrevRow(df, i)
         IN  geodesic_km(df[i].lat, df[i].lon, prev.lat, prev.lon)

RegisteredRetailers == {"R1", "R2", "R3", "R4", "R5"}

retailer_type(x) == IF x \in RegisteredRetailers THEN 1 ELSE 0

\* the frame preprocess_scan_logs returns for the rows of a CSV
ScanFrame(file) ==
    LET df == sort_values(file)
    IN  [i \in 1..Len(df) |->
            [lat |-> df[i].lat, lon |-> df[i].lon,
             scan_interval_hours |-> scan_interval_hours(df, i),
             distance_km |-> compute_distance(df, i),
             retailer_type |-> retailer_type(df[i].retailer_id),
             batch_id |-> df[i].batch_id]]

\* A CSV without rows: df.apply(compute_distance, axis=1) then yields a frame,
\* not a column, and whether assigning it to df['distance_km'] raises
\* depends on the pandas release; both outcomes are kept.
EmptyOutcomes == {"none", "ValueError"}

\* variant: dropna() instead of fillna(): the first scan of a batch is dropped
preprocess_dropna(file) ==
    /\ pc = "start"
    /\ LET df == sort_values(file)
           kept == SelectSeq([i \in 1..Len(df) |-> i],
                             LAMBDA i : prev_time(df, i) # NaN)
       IN  scan_df' =
             [k \in 1..Len(kept) |->
                [lat |-> df[kept[k]].lat, lon |-> df[kept[k]].lon,
                 scan_interval_hours |-> RawInterval(df, kept[k]),
                 distance_km |-> compute_distance(df, kept[k]),
                 retailer_type |-> retailer_type(df[kept[k]].retailer_id),
                 batch_id |-> df[kept[k]].batch_id]]
    /\ scan_logs' = file
    /\ IF file = <<>> THEN raised' \in EmptyOutcomes ELSE raised' = "none"
    /\ pc' = "preprocessed"
    /\ UNCHANGED <<df_harvest, herb_rules_df, weekly_harvest, weekly,
                   contamination, rate_a, rate_b, est_a, est_b,
                   iso_forest, metrics, loaded, request, response,
                   X, upload_folder, threads>>

preprocess_scan_logs(file) ==
    /\ pc = "start"
    /\ scan_df' = ScanFrame(file)
    /\ scan_logs' = file
    /\ IF file = <<>> THEN raised' \in EmptyOutcomes ELSE raised' = "none"
    /\ pc' = "preprocessed"
    /\ UNCHANGED <<df_harvest, herb_rules_df, weekly_harvest, weekly,
                   contamination, rate_a, rate_b, est_a, est_b,
                   iso_forest, metrics, loaded, request, response,
                   X, upload_folder, threads>>

PreprocessScanLogs == \E file \in ScanFiles : preprocess_scan_logs(file)

----------------------------------------------------------------------------
(* ml_api_server.py: /api/counterfeit/detect *)

Globals == {"counterfeit_model", "harvest_model", "herb_rules_df"}

\* load_models: every model file is in place, the rules file is missing, or
\* nothing is
LoadedSets == {Globals, Globals \ {"herb_rules_df"}, {}}

\* jsonify({'error': ..., 'status': 'error'}), code
ErrorResponse(code, message) ==
    [code |-> code, status |-> "error", error |-> message, detail |-> "none"]

\* the answer of 'except Exception as e': the handler's message followed by
\* str(e)
CaughtResponse(message, e) ==
    [code |-> 500, status |-> "error", error |-> message, detail |-> e]

\* the scan logs a client submits: two scans of B1 an hour and a degree
\* apart, and two scans of B2, one of them at an unregistered retailer
RequestScanRows ==
    {[batch_id |-> "B1", timestamp |-> 0, lat |-> 0, lon |-> 77, retailer_id |-> "R1"],
     [batch_id |-> "B1", timestamp |-> 1, lat |-> 1, lon |-> 77, retailer_id |-> "R1"],
     [batch_id |-> "B2", timestamp |-> 0, lat |-> 0, lon |-> 77, retailer_id |-> "R1"],
     [batch_id |-> "B2", timestamp |-> 2, lat |-> 1, lon |-> 77, retailer_id |-> "R9"]}

RequestScans == SeqsUpTo(RequestScanRows, MaxScans)

\* a JSON body with a scan_logs list, an upload with an allowed file name
\* (rows of the CSV under its header), an upload with an empty or
\* disallowed file name, a JSON body without scan_logs, and neither
ScanRequests ==
    [route : {"/api/counterfeit/detect"}, kind : {"json", "file"}, filename_ok : {TRUE}, rows : RequestScans]
    \cup
    [route : {"/api/counterfeit/detect"}, kind : {"file"}, filename_ok : {FALSE}, rows : {<<>>}]
    \cup
    [route : {"/api/counterfeit/detect"}, kind : {"json_no_field", "none"}, filename_ok : {TRUE}, rows : {<<>>}]

\* file.save(filepath) and df_input.to_csv(temp_file): the file of that name
\* is created or overwritten
to_csv(folder, name, rows) ==
    [n \in DOMAIN folder \cup {name} |-> IF n = name THEN rows ELSE folder[n]]

\* os.remove(filepath) of a file that is there
os_remove(folder, name) == [n \in DOMAIN folder \ {name} |-> folder[n]]

\* the path the handler of a route writes the request's rows to: a fixed
\* name for a JSON body, secure_filename(file.filename) for an upload
temp_file(req) ==
    IF req.kind = "file" THEN "scans.csv"
    ELSE IF req.route = "/api/counterfeit/analyze" THEN "temp_analysis.csv"
    ELSE "temp_scan_logs.csv"

\* X, the five columns taken from the preprocessed frame, with what was
\* done to each before decision_function and predict: nothing
ScanMatrix(df) ==
    [columns |-> <<[name |-> "lat", steps |-> <<>>],
                   [name |-> "lon", steps |-> <<>>],
                   [name |-> "scan_interval_hours", steps |-> <<>>],
                   [name |-> "distance_km", steps |-> <<>>],
                   [name |-> "retailer_type", steps |-> <<>>]>>,
     rows |-> Len(df)]

\* X = df[['lat', 'lon', 'scan_interval_hours', 'distance_km', 'retailer_type']]
ScanFeatures(r) ==
    <<r.lat, r.lon, r.scan_interval_hours, r.distance_km, r.retailer_type>>

HasNaN(df) == \E i \in 1..Len(df) : df[i].scan_interval_hours = NaN

\* decision_function / predict on a matrix holding NaN: rejected with
\* ValueError or scored, depending on the scikit-learn release
NaNOutcomes == {"ValueError", "none"}

\* the 200 answer: predictions == -1 marks the rows whose features the
\* loaded model isolates
CounterfeitSuccess(df, flagged) ==
    LET suspicious_items ==
            SelectSeq(df, LAMBDA r : ScanFeatures(r) \in flagged)
    IN  [code |-> 200, status |-> "success",
         total_scans |-> Len(df),
         suspicious_count |-> Len(suspicious_items),
         suspicious_items |->
             [k \in 1..Len(suspicious_items) |-> suspicious_items[k].batch_id]]

\* the handler from 'if df.empty' on, given the frame preprocessing returned
counterfeit_scored(df, failure, flagged) ==
    IF df = <<>>
    THEN ErrorResponse(400, "No valid data to process")
    ELSE IF failure # "none"
    THEN CaughtResponse("Error processing counterfeit detection", failure)
    ELSE CounterfeitSuccess(df, flagged)

\* the exceptions preprocessing can end in: a JSON list without entries is
\* written as a CSV without header, which read_csv rejects; an upload
\* without rows is a frame without rows (EmptyOutcomes)
PreprocessOutcomes(req) ==
    IF req.rows # <<>> THEN {"none"}
    ELSE IF req.kind = "json" THEN {"EmptyDataError"}
    ELSE EmptyOutcomes

\* the exceptions scoring can end in
ScoringOutcomes(df) == IF HasNaN(df) THEN NaNOutcomes ELSE {"none"}

detect_counterfeit(req) ==
    /\ pc = "start"
    /\ request' = req
    /\ IF "counterfeit_model" \notin loaded
       THEN /\ raised' = "none"
            /\ response' = ErrorResponse(500, "Counterfeit detection model not loaded")
            /\ X' = NoMatrix
            /\ UNCHANGED upload_folder
       ELSE IF req.kind = "file" /\ ~req.filename_ok
       THEN \* df is never bound: 'if df.empty' raises
            /\ raised' = "UnboundLocalError"
            /\ response' = CaughtResponse("Error processing counterfeit detection", "UnboundLocalError")
            /\ X' = NoMatrix
            /\ UNCHANGED upload_folder
       ELSE IF req.kind = "json_no_field"
       THEN /\ raised' = "none"
            /\ response' = ErrorResponse(400, "Missing scan_logs field in JSON data")
            /\ X' = NoMatrix
            /\ UNCHANGED upload_folder
       ELSE IF req.kind = "none"
       THEN /\ raised' = "none"
            /\ response' = ErrorResponse(400, "No file uploaded or JSON data provided")
            /\ X' = NoMatrix
            /\ UNCHANGED upload_folder
       ELSE \E failed \in PreprocessOutcomes(req) :
               LET written == to_csv(upload_folder, temp_file(req), req.rows)
               IN  IF failed # "none"
                   THEN \* os.remove is not reached
                        /\ raised' = failed
                        /\ response' = CaughtResponse("Error processing counterfeit detection", failed)
                        /\ X' = NoMatrix
                        /\ upload_folder' = written
                   ELSE LET df == ScanFrame(written[temp_file(req)])
                        IN  \E failure \in ScoringOutcomes(df) :
                            \E flagged \in SUBSET {ScanFeatures(df[i]) : i \in 1..Len(df)} :
                               /\ raised' = failure
                               /\ response' = counterfeit_scored(df, failure,
                                                   IF failure = "none" THEN flagged ELSE {})
                               /\ X' = IF df = <<>> THEN NoMatrix ELSE ScanMatrix(df)
                               /\ upload_folder' = os_remove(written, temp_file(req))
    /\ pc' = "answered"
    /\ UNCHANGED <<df_harvest, herb_rules_df, weekly_harvest, weekly,
                   contamination, scan_logs, scan_df, rate_a, rate_b, est_a, est_b,
                   iso_forest, metrics, loaded, threads>>

DetectCounterfeit == \E req \in ScanRequests : detect_counterfeit(req)

----------------------------------------------------------------------------
(* ml_api_server.py: /api/counterfeit/analyze *)

\* as ScanRequests, sent to the analysis route
AnalyzeScanRequests ==
    {[r EXCEPT !.route = "/api/counterfeit/analyze"] : r \in ScanRequests}

\* the 200 answer: the overview of the preprocessed frame
AnalysisSuccess(df) ==
    [code |-> 200, status |-> "success",
     total_records |-> Len(df),
     unique_batch_ids |-> Cardinality({df[i].batch_id : i \in 1..Len(df)})]

analyze_counterfeit_data(req) ==
    /\ pc = "start"
    /\ request' = req
    /\ IF req.kind = "file" /\ ~req.filename_ok
       THEN \* df is never bound: len(df) raises
            /\ raised' = "UnboundLocalError"
            /\ response' = CaughtResponse("Error analyzing data", "UnboundLocalError")
            /\ UNCHANGED upload_folder
       ELSE IF req.kind = "json_no_field"
       THEN /\ raised' = "none"
            /\ response' = ErrorResponse(400, "Missing scan_logs field")
            /\ UNCHANGED upload_folder
       ELSE IF req.kind = "none"
       THEN /\ raised' = "none"
            /\ response' = ErrorResponse(400, "No data provided")
            /\ UNCHANGED upload_folder
       ELSE \E failed \in PreprocessOutcomes(req) :
               LET written == to_csv(upload_folder, temp_file(req), req.rows)
               IN  IF failed # "none"
                   THEN \* os.remove is not reached
                        /\ raised' = failed
                        /\ response' = CaughtResponse("Error analyzing data", failed)
                        /\ upload_folder' = written
                   ELSE /\ raised' = "none"
                        /\ response' = AnalysisSuccess(ScanFrame(written[temp_file(req)]))
                        /\ upload_folder' = os_remove(written, temp_file(req))
    /\ pc' = "answered"
    /\ UNCHANGED <<df_harvest, herb_rules_df, weekly_harvest, weekly,
                   contamination, scan_logs, scan_df, rate_a, rate_b, est_a, est_b,
                   iso_forest, metrics, loaded, X, threads>>

----------------------------------------------------------------------------
(* ml_api_server.py with threaded=True: two requests with a JSON body to   *)
(* /api/counterfeit/detect or /api/counterfeit/analyze, each handled by a  *)
(* thread of its own, step by step                                         *)

Threads == {1, 2}

\* the scan_logs lists of the two clients
ConcurrentScans ==
    {<<>>,
     <<[batch_id |-> "B1", timestamp |-> 0, lat |-> 0, lon |-> 77, retailer_id |-> "R1"],
       [batch_id |-> "B1", timestamp |-> 1, lat |-> 1, lon |-> 77, retailer_id |-> "R1"]>>,
     <<[batch_id |-> "B2", timestamp |-> 0, lat |-> 0, lon |-> 77, retailer_id |-> "R1"],
       [batch_id |-> "B2", timestamp |-> 1, lat |-> 0, lon |-> 77, retailer_id |-> "R9"],
       [batch_id |-> "B2", timestamp |-> 2, lat |-> 1, lon |-> 77, retailer_id |-> "R9"]>>}

ConcurrentRequests ==
    [route : {"/api/counterfeit/detect", "/api/counterfeit/analyze"},
     kind : {"json"}, filename_ok : {TRUE}, rows : ConcurrentScans]

\* the message of the route's 'except Exception' handler
CaughtMessage(req) ==
    IF req.route = "/api/counterfeit/analyze" THEN "Error analyzing data"
    ELSE "Error processing counterfeit detection"

\* the thread leaves the handler with an answer
Answer(th, answer) == [th EXCEPT !.pc = "done", !.response = answer]

\* df_input.to_csv(temp_file, index=False)
WriteTemp(t) ==
    /\ pc = "serving"
    /\ threads[t].pc = "received"
    /\ upload_folder' = to_csv(upload_folder, temp_file(threads[t].req),
                               threads[t].req.rows)
    /\ threads' = [threads EXCEPT ![t].pc = "written"]
    /\ UNCHANGED <<pc, raised, df_harvest, herb_rules_df, weekly_harvest, weekly,
                   contamination, scan_logs, scan_df, rate_a, rate_b, est_a, est_b,
                   iso_forest, metrics, loaded, request, response, X>>

\* df = preprocess_scan_logs(temp_file): read_csv of the file of that name
\* as it is now
ReadTemp(t) ==
    LET th   == threads[t]
        name == temp_file(th.req)
    IN  /\ pc = "serving"
        /\ th.pc = "written"
        /\ threads' =
              [threads EXCEPT ![t] =
                  IF name \notin DOMAIN upload_folder
                  THEN Answer(th, CaughtResponse(CaughtMessage(th.req), "FileNotFoundError"))
                  ELSE IF upload_folder[name] = <<>>
                  THEN Answer(th, CaughtResponse(CaughtMessage(th.req), "EmptyDataError"))
                  ELSE [th EXCEPT !.pc = "preprocessed",
                                  !.df = ScanFrame(upload_folder[name])]]
        /\ UNCHANGED upload_folder
        /\ UNCHANGED <<pc, raised, df_harvest, herb_rules_df, weekly_harvest, weekly,
                       contamination, scan_logs, scan_df, rate_a, rate_b, est_a, est_b,
                       iso_forest, metrics, loaded, request, response, X>>

\* os.remove(temp_file)
RemoveTemp(t) ==
    LET th   == threads[t]
        name == temp_file(th.req)
    IN  /\ pc = "serving"
        /\ th.pc = "preprocessed"
        /\ IF name \in DOMAIN upload_folder
           THEN /\ upload_folder' = os_remove(upload_folder, name)
                /\ threads' = [threads EXCEPT ![t].pc = "removed"]
           ELSE /\ threads' = [threads EXCEPT ![t] =
                       Answer(th, CaughtResponse(CaughtMessage(th.req), "FileNotFoundError"))]
                /\ UNCHANGED upload_folder
        /\ UNCHANGED <<pc, raised, df_harvest, herb_rules_df, weekly_harvest, weekly,
                       contamination, scan_logs, scan_df, rate_a, rate_b, est_a, est_b,
                       iso_forest, metrics, loaded, request, response, X>>

\* the rest of the handler: scoring, or the overview
Respond(t) ==
    LET th == threads[t]
    IN  /\ pc = "serving"
        /\ th.pc = "removed"
        /\ IF th.req.route = "/api/counterfeit/analyze"
           THEN threads' = [threads EXCEPT ![t] = Answer(th, AnalysisSuccess(th.df))]
           ELSE \E failure \in ScoringOutcomes(th.df) :
                \E flagged \in SUBSET {ScanFeatures(th.df[i]) : i \in 1..Len(th.df)} :
                   threads' = [threads EXCEPT ![t] =
                       Answer(th, counterfeit_scored(th.df, failure,
                                    IF failure = "none" THEN flagged ELSE {}))]
        /\ UNCHANGED upload_folder
        /\ UNCHANGED <<pc, raised, df_harvest, herb_rules_df, weekly_harvest, weekly,
                       contamination, scan_logs, scan_df, rate_a, rate_b, est_a, est_b,
                       iso_forest, metrics, loaded, request, response, X>>

----------------------------------------------------------------------------
(* ml_api_server.py: /api/harvest/detect and /api/harvest/analyze *)

HarvestColumns ==
    {"farmer_id", "plant_type", "timestamp", "quantity_harvested",
     "region_id", "geo_lat", "geo_lon"}

\* a timestamp string no date can be read from (month 13)
BadTimestamp == [y |-> 2025, m |-> 13, d |-> 1]

GoodLog ==
    [farmer_id |-> 1, plant_type |-> "Tulsi", timestamp |-> FirstTimestamp,
     quantity_harvested |-> 1, region_id |-> "R1", geo_lat |-> 10, geo_lon |-> 77]

\* the harvest logs a client submits: a lot within the limits, a lot of
\* the week after, a large lot from an unapproved region, and logs with one
\* defect each: the quantity, the timestamp or the latitude is null, or
\* the timestamp is unparsable
RequestLogRows ==
    {GoodLog,
     [GoodLog EXCEPT !.timestamp = [y |-> 2025, m |-> 1, d |-> 6]],
     [GoodLog EXCEPT !.quantity_harvested = 2, !.region_id = "R2"],
     [GoodLog EXCEPT !.quantity_harvested = NaN],
     [GoodLog EXCEPT !.timestamp = NaT],
     [GoodLog EXCEPT !.quantity_harvested = 2, !.region_id = "R2", !.geo_lat = NaN],
     [GoodLog EXCEPT !.timestamp = BadTimestamp]}

RequestLogs == SeqsUpTo(RequestLogRows, MaxEvents)

\* as ScanRequests; columns are the keys the submitted records carry
HarvestRequests ==
    [route : {"/api/harvest/detect"}, kind : {"json", "file"}, filename_ok : {TRUE}, rows : RequestLogs,
     columns : {HarvestColumns}]
    \cup
    [route : {"/api/harvest/detect"}, kind : {"json"}, filename_ok : {TRUE}, rows : {<<GoodLog>>},
     columns : {HarvestColumns \ {"quantity_harvested"},
                HarvestColumns \ {"timestamp"}}]
    \cup
    [route : {"/api/harvest/detect"}, kind : {"file"}, filename_ok : {FALSE}, rows : {<<>>},
     columns : {HarvestColumns}]
    \cup
    [route : {"/api/harvest/detect"}, kind : {"json_no_field", "none"}, filename_ok : {TRUE}, rows : {<<>>},
     columns : {HarvestColumns}]

\* the rules file load_models reads at startup
ServerRuleRows ==
    {[plant_type |-> "Tulsi", max_quantity_per_week |-> 1,
      approved_regions |-> {"R1"}]}

ServerRuleFrames == SeqsUpTo(ServerRuleRows, MaxRules)

\* pd.to_datetime fails on the first string it cannot read
Unparsable(rows) == \E i \in 1..Len(rows) : rows[i].timestamp = BadTimestamp

\* the 200 answer built from the frame detect_weekly_anomalies returned
HarvestSuccess(flagged_harvests) ==
    LET anomalies == SelectSeq(flagged_harvests, LAMBDA r : r.final_anomaly = 1)
    IN  [code |-> 200, status |-> "success",
         total_weekly_harvests |-> Len(flagged_harvests),
         anomaly_count |-> Len(anomalies),
         anomalies |->
             [k \in 1..Len(anomalies) |->
                 [farmer_id |-> anomalies[k].farmer_id,
                  plant_type |-> anomalies[k].plant_type,
                  year |-> anomalies[k].year, week |-> anomalies[k].week,
                  quantity_harvested |-> anomalies[k].quantity_harvested,
                  region_id |-> anomalies[k].region_id,
                  rule_anomalies |-> anomalies[k].rule_anomalies,
                  iforest_anomaly |-> anomalies[k].iforest_anomaly,
                  final_anomaly |-> anomalies[k].final_anomaly]],
         summary_stats |->
             [rule_based_anomalies |->
                  Len(SelectSeq(flagged_harvests, LAMBDA r : Len(r.rule_anomalies) > 0)),
              ml_based_anomalies |->
                  Len(SelectSeq(flagged_harvests, LAMBDA r : r.iforest_anomaly = 1)),
              total_farmers_flagged |->
                  Cardinality({anomalies[k].farmer_id : k \in 1..Len(anomalies)})]]

\* the handler from 'if df_harvest.empty' on; run is what
\* detect_weekly_anomalies does on the frame
harvest_detected(df, run) ==
    IF df = <<>>
    THEN ErrorResponse(400, "No valid harvest data to process")
    ELSE IF run.raised # "none"
    THEN CaughtResponse("Error processing harvest anomaly detection", run.raised)
    ELSE HarvestSuccess(run.value)

detect_harvest_anomalies(req) ==
    /\ pc = "start"
    /\ request' = req
    /\ IF "harvest_model" \notin loaded \/ "herb_rules_df" \notin loaded
       THEN /\ raised' = "none"
            /\ response' = ErrorResponse(500,
                   "Harvest anomaly detection model or herb rules not loaded")
            /\ weekly_harvest' = <<>> /\ X' = NoMatrix
            /\ UNCHANGED upload_folder
       ELSE IF req.kind = "file" /\ ~req.filename_ok
       THEN \* df_harvest is never bound: 'if df_harvest.empty' raises
            /\ raised' = "UnboundLocalError"
            /\ response' = CaughtResponse("Error processing harvest anomaly detection", "UnboundLocalError")
            /\ weekly_harvest' = <<>> /\ X' = NoMatrix
            /\ UNCHANGED upload_folder
       ELSE IF req.kind = "json_no_field"
       THEN /\ raised' = "none"
            /\ response' = ErrorResponse(400, "Missing harvest_logs field in JSON data")
            /\ weekly_harvest' = <<>> /\ X' = NoMatrix
            /\ UNCHANGED upload_folder
       ELSE IF req.kind = "none"
       THEN /\ raised' = "none"
            /\ response' = ErrorResponse(400, "No file uploaded or JSON data provided")
            /\ weekly_harvest' = <<>> /\ X' = NoMatrix
            /\ UNCHANGED upload_folder
       ELSE IF req.rows # <<>> /\ "timestamp" \in req.columns /\ Unparsable(req.rows)
       THEN \* pd.to_datetime, for an upload inside load_harvest_data, with
            \* os.remove not reached
            /\ raised' = "ValueError"
            /\ response' = CaughtResponse("Error processing harvest anomaly detection", "ValueError")
            /\ weekly_harvest' = <<>> /\ X' = NoMatrix
            /\ upload_folder' = IF req.kind = "file"
                                THEN to_csv(upload_folder, temp_file(req), req.rows)
                                ELSE upload_folder
       ELSE IF req.rows # <<>> /\ req.columns # HarvestColumns
       THEN \* df['timestamp'] or the aggregation of a column that is not there
            /\ raised' = "KeyError"
            /\ response' = CaughtResponse("Error processing harvest anomaly detection", "KeyError")
            /\ weekly_harvest' = <<>> /\ X' = NoMatrix
            /\ UNCHANGED upload_folder
       ELSE \E model \in ModelsFor(req.rows) :
               LET run == detect_weekly_anomalies(req.rows, herb_rules_df, model)
               IN  /\ raised' = IF req.rows = <<>> THEN "none" ELSE run.raised
                   /\ response' = harvest_detected(req.rows, run)
                   /\ weekly_harvest' = IF req.rows = <<>> THEN <<>> ELSE run.value
                   /\ X' = IF req.rows = <<>> THEN NoMatrix ELSE run.X
                   /\ upload_folder' =
                          IF req.kind = "file"
                          THEN os_remove(to_csv(upload_folder, temp_file(req), req.rows),
                                         temp_file(req))
                          ELSE upload_folder
    /\ pc' = "answered"
    /\ UNCHANGED <<df_harvest, herb_rules_df, weekly, contamination,
                   scan_logs, scan_df, rate_a, rate_b, est_a, est_b,
                   iso_forest, metrics, loaded, threads>>

DetectHarvestAnomalies == \E req \in HarvestRequests : detect_harvest_anomalies(req)

\* the body test_data_analysis posts, and uploads of a CSV
AnalyzeRequests ==
    [route : {"/api/harvest/analyze"}, kind : {"json", "file"}, filename_ok : {TRUE},
     rows : SeqsUpTo({GoodLog}, MaxEvents), columns : {HarvestColumns}]
    \cup
    [route : {"/api/harvest/analyze"}, kind : {"file"}, filename_ok : {FALSE}, rows : {<<>>},
     columns : {HarvestColumns}]

\* whether the object load_models unpickled has a detect_anomalies method:
\* an IsolationForest, which is what train_model.py saves, has none
HasDetectAnomalies == FALSE

analyze_harvest(req) ==
    /\ pc = "start"
    /\ request' = req
    /\ IF req.kind # "file"
       THEN \* 'file' not in request.files
            /\ raised' = "none"
            /\ response' = ErrorResponse(400, "No file provided")
       ELSE IF ~req.filename_ok
       THEN /\ raised' = "none"
            /\ response' = ErrorResponse(400, "Please provide a valid CSV file")
       ELSE IF "harvest_model" \notin loaded \/ ~HasDetectAnomalies
       THEN \* harvest_model.detect_anomalies: None or an IsolationForest
            \* {'error': str(e), 'status': 'error'}, 500
            /\ raised' = "AttributeError"
            /\ response' = CaughtResponse("", "AttributeError")
       ELSE /\ raised' = "none"
            /\ response' = [code |-> 200, status |-> "success",
                            message |-> "Harvest analysis completed successfully"]
    /\ pc' = "answered"
    /\ UNCHANGED <<df_harvest, herb_rules_df, weekly_harvest, weekly,
                   contamination, scan_logs, scan_df, rate_a, rate_b, est_a, est_b,
                   iso_forest, metrics, loaded,
                   X, upload_folder, threads>>

AnalyzeHarvest == \E req \in AnalyzeRequests : analyze_harvest(req)

----------------------------------------------------------------------------
(* ml_api_server.py: /api/fraud/detect_batch *)

\* location_data: left out (or {}), or both variances
LocationData ==
    {[given |-> FALSE, lat_variance |-> 0, lng_variance |-> 0]}
    \cup [given : {TRUE}, lat_variance : {0, 5, 6}, lng_variance : {0, 5, 6}]

\* a JSON body with the number of entries of scan_history, the batch's
\* age_days (0 when left out) and location_data, and a request without a body
FraudRequests ==
    [route : {"/api/fraud/detect_batch"}, kind : {"json"},
     scan_count : {0, 1, 2, 50, 51}, age_days : {0, 45, 365, 366},
     location_data : LocationData]
    \cup
    [route : {"/api/fraud/detect_batch"}, kind : {"none"},
     scan_count : {0}, age_days : {0},
     location_data : {[given |-> FALSE, lat_variance |-> 0, lng_variance |-> 0]}]

\* whether the object load_models unpickled has a detect_anomaly method: an
\* IsolationForest, which is what train.py saves, has none (nor has None)
HasDetectAnomaly == FALSE

\* fraud_indicators, in the order the checks append them
fraud_indicators(req) ==
    (IF req.scan_count > 0 /\ req.scan_count > 50 THEN <<"high_scan_frequency">>
     ELSE IF req.scan_count > 0 /\ req.scan_count < 2 THEN <<"low_scan_activity">>
     ELSE <<>>)
    \o (IF req.age_days > 365 THEN <<"old_batch_activity">> ELSE <<>>)
    \o (IF /\ req.location_data.given
           /\ (req.location_data.lat_variance > 5 \/ req.location_data.lng_variance > 5)
        THEN <<"location_inconsistency">>
        ELSE <<>>)

\* the float64 literal added to fraud_score with each indicator
Weight(indicator) ==
    CASE indicator = "high_scan_frequency" -> FloatDiv(3, 10)
      [] indicator = "low_scan_activity" -> FloatDiv(1, 10)
      [] indicator = "old_batch_activity" -> FloatDiv(1, 5)
      [] indicator = "location_inconsistency" -> FloatDiv(1, 4)

\* fraud_score = 0.0, then += per indicator in order
RECURSIVE fraud_score(_)
fraud_score(indicators) ==
    IF indicators = <<>> THEN DZero
    ELSE DAdd(fraud_score(SubSeq(indicators, 1, Len(indicators) - 1)),
              Weight(indicators[Len(indicators)]))

\* variant: 'high' starts at 0.5
risk_level_high_from_half(score) ==
    IF DLeq(Half, score) THEN "high"
    ELSE IF DLeq(FloatDiv(2, 5), score) THEN "medium"
    ELSE "low"

risk_level(score) ==
    IF DLeq(FloatDiv(7, 10), score) THEN "high"
    ELSE IF DLeq(FloatDiv(2, 5), score) THEN "medium"
    ELSE "low"

detect_batch_fraud(req) ==
    /\ pc = "start"
    /\ request' = req
    /\ raised' = "none"
    /\ IF req.kind = "none"
       THEN response' = ErrorResponse(400, "No data provided")
       ELSE LET factors == fraud_indicators(req)
                score   == fraud_score(factors)
            IN  \E rounded \in Round3(score) :
                   response' = [code |-> 200, status |-> "success",
                                fraud_score |-> rounded,
                                risk_level |-> risk_level(score),
                                anomaly_detected |-> DLess(Half, score),
                                factors |-> factors]
    /\ pc' = "answered"
    /\ UNCHANGED <<df_harvest, herb_rules_df, weekly_harvest, weekly,
                   contamination, scan_logs, scan_df, rate_a, rate_b, est_a, est_b,
                   iso_forest, metrics, loaded,
                   X, upload_folder, threads>>

----------------------------------------------------------------------------
(* scripts/evaluate_model.py and src/evaluate.py: the caller loads the     *)
(* events, the rules and the model, runs the detection on them, and then   *)
(* runs it once more on the same objects or evaluates the result           *)

\* the events of the caller's file: a Tulsi lot within the limits, a large
\* Tulsi lot from an unapproved region, a Tulsi lot of the week after, an
\* Ashwagandha lot, and a Tulsi lot of the first week harvested two degrees
\* further north in the other region
RerunEvents ==
    {e \in HarvestEvents :
        /\ e.farmer_id = 1
        /\ e.timestamp # [y |-> 2025, m |-> 1, d |-> 2]
        /\ <<e.quantity_harvested, e.region_id>> \in {<<1, "R1">>, <<2, "R2">>}
        /\ e.plant_type = "Ashwagandha" => e.quantity_harvested = 1}
    \cup
    {[farmer_id |-> 1, plant_type |-> "Tulsi", timestamp |-> FirstTimestamp,
      quantity_harvested |-> 1, region_id |-> "R2",
      geo_lat |-> 12, geo_lon |-> 77]}

RerunFrames == SeqsUpTo(RerunEvents, MaxEvents)

\* detect_weekly_anomalies(df_harvest, df_rules, iso_forest) on the caller's objects
run_detection(next_pc) ==
    LET run == detect_weekly_anomalies(df_harvest, herb_rules_df, iso_forest)
    IN  /\ df_harvest' = run.df
        /\ raised' = run.raised
        /\ weekly_harvest' = run.value
        /\ X' = run.X
        /\ pc' = next_pc
        /\ UNCHANGED <<herb_rules_df, iso_forest, weekly, contamination,
                       scan_logs, scan_df, rate_a, rate_b, est_a, est_b,
                       metrics, loaded, request, response,
                       upload_folder, threads>>

RunDetection == pc = "start" /\ run_detection("detected")

RunDetectionAgain ==
    pc = "detected" /\ raised = "none" /\ run_detection("detected_again")

\* lambda x: 1 if len(x) > 0 else 0
RuleLabel(x) == IF Len(x) > 0 THEN 1 ELSE 0

Count(df, y_true, y_pred) ==
    Cardinality({i \in 1..Len(df) :
                    RuleLabel(df[i].rule_anomalies) = y_true
                    /\ df[i].iforest_anomaly = y_pred})

\* variant: zero_division=1
RatioZeroDivisionOne(n, d) ==
    IF d = 0 THEN <<1, 1>> ELSE <<n \div Gcd(n, d), d \div Gcd(n, d)>>

\* a score n/d of sklearn.metrics with zero_division=0, kept exact as a
\* reduced fraction
Ratio(n, d) ==
    IF d = 0 THEN <<0, 1>> ELSE <<n \div Gcd(n, d), d \div Gcd(n, d)>>

precision_score(df) ==
    Ratio(Count(df, 1, 1), Count(df, 1, 1) + Count(df, 0, 1))

recall_score(df) ==
    Ratio(Count(df, 1, 1), Count(df, 1, 1) + Count(df, 1, 0))

f1_score(df) ==
    Ratio(2 * Count(df, 1, 1),
          2 * Count(df, 1, 1) + Count(df, 0, 1) + Count(df, 1, 0))

\* evaluate_model(df_results): the rule_anomaly column is added to the frame
\* it is given, the three scores are returned
evaluate_model ==
    /\ pc = "detected" /\ raised = "none"
    /\ weekly_harvest' =
          [i \in 1..Len(weekly_harvest) |->
              [farmer_id |-> weekly_harvest[i].farmer_id,
               plant_type |-> weekly_harvest[i].plant_type,
               year |-> weekly_harvest[i].year, week |-> weekly_harvest[i].week,
               quantity_harvested |-> weekly_harvest[i].quantity_harvested,
               region_id |-> weekly_harvest[i].region_id,
               geo_lat |-> weekly_harvest[i].geo_lat,
               geo_lon |-> weekly_harvest[i].geo_lon,
               rule_anomalies |-> weekly_harvest[i].rule_anomalies,
               iforest_anomaly |-> weekly_harvest[i].iforest_anomaly,
               final_anomaly |-> weekly_harvest[i].final_anomaly,
               rule_anomaly |-> RuleLabel(weekly_harvest[i].rule_anomalies)]]
    /\ metrics' = <<precision_score(weekly_harvest), recall_score(weekly_harvest),
                    f1_score(weekly_harvest)>>
    /\ pc' = "evaluated"
    /\ UNCHANGED <<raised, df_harvest, herb_rules_df, iso_forest, weekly,
                   contamination, scan_logs, scan_df, rate_a, rate_b, est_a, est_b,
                   loaded, request, response,
                   X, upload_folder, threads>>

----------------------------------------------------------------------------
Init ==
    /\ pc = "start"
    /\ raised = "none"
    /\ df_harvest = <<>>
    /\ herb_rules_df = <<>>
    /\ weekly_harvest = <<>>
    /\ weekly = <<>>
    /\ contamination = <<>>
    /\ scan_logs = <<>>
    /\ scan_df = <<>>
    /\ rate_a = <<0, 1>>
    /\ rate_b = <<0, 1>>
    /\ est_a = <<>>
    /\ est_b = <<>>
    /\ iso_forest = NoModel
    /\ metrics = <<>>
    /\ loaded = {}
    /\ request = <<>>
    /\ response = <<>>
    /\ X = NoMatrix
    /\ upload_folder = NoFiles
    /\ threads = <<>>

Next ==
    \/ DetectWeeklyAnomalies
    \/ TrainModel

Spec == Init /\ [][Next]_vars

NextScan == PreprocessScanLogs

SpecScan == Init /\ [][NextScan]_vars

InitEstimate ==
    /\ pc = "start"
    /\ raised = "none"
    /\ df_harvest = <<>>
    /\ herb_rules_df = <<>>
    /\ weekly_harvest = <<>>
    /\ weekly = <<>>
    /\ contamination = <<>>
    /\ scan_logs = <<>>
    /\ scan_df = <<>>
    /\ rate_a \in Rates
    /\ rate_b \in Rates
    /\ est_a = <<>>
    /\ est_b = <<>>
    /\ iso_forest = NoModel
    /\ metrics = <<>>
    /\ loaded = {}
    /\ request = <<>>
    /\ response = <<>>
    /\ X = NoMatrix
    /\ upload_folder = NoFiles
    /\ threads = <<>>

NextEstimate == Estimate

SpecEstimate == InitEstimate /\ [][NextEstimate]_vars

InitServer ==
    /\ pc = "start"
    /\ raised = "none"
    /\ df_harvest = <<>>
    /\ loaded \in LoadedSets
    /\ herb_rules_df \in (IF "herb_rules_df" \in loaded THEN ServerRuleFrames ELSE {<<>>})
    /\ weekly_harvest = <<>>
    /\ weekly = <<>>
    /\ contamination = <<>>
    /\ scan_logs = <<>>
    /\ scan_df = <<>>
    /\ rate_a = <<0, 1>>
    /\ rate_b = <<0, 1>>
    /\ est_a = <<>>
    /\ est_b = <<>>
    /\ iso_forest = NoModel
    /\ metrics = <<>>
    /\ request = <<>>
    /\ response = <<>>
    /\ X = NoMatrix
    /\ upload_folder = NoFiles
    /\ threads = <<>>

NextServer ==
    \/ DetectCounterfeit
    \/ DetectHarvestAnomalies
    \/ AnalyzeHarvest
    \/ \E req \in FraudRequests : detect_batch_fraud(req)
    \/ \E req \in AnalyzeScanRequests : analyze_counterfeit_data(req)

SpecServer == InitServer /\ [][NextServer]_vars

\* load_models found the models; two requests have arrived
InitConcurrent ==
    /\ pc = "serving"
    /\ raised = "none"
    /\ df_harvest = <<>>
    /\ herb_rules_df = <<>>
    /\ weekly_harvest = <<>>
    /\ weekly = <<>>
    /\ contamination = <<>>
    /\ scan_logs = <<>>
    /\ scan_df = <<>>
    /\ rate_a = <<0, 1>>
    /\ rate_b = <<0, 1>>
    /\ est_a = <<>>
    /\ est_b = <<>>
    /\ iso_forest = NoModel
    /\ metrics = <<>>
    /\ loaded = Globals
    /\ request = <<>>
    /\ response = <<>>
    /\ X = NoMatrix
    /\ upload_folder = NoFiles
    /\ threads \in [Threads -> [pc : {"received"}, req : ConcurrentRequests,
                                df : {<<>>}, response : {<<>>}]]

NextConcurrent ==
    \/ \E t \in Threads : WriteTemp(t)
    \/ \E t \in Threads : ReadTemp(t)
    \/ \E t \in Threads : RemoveTemp(t)
    \/ \E t \in Threads : Respond(t)

SpecConcurrent == InitConcurrent /\ [][NextConcurrent]_vars

InitRerun ==
    /\ pc = "start"
    /\ raised = "none"
    /\ df_harvest \in RerunFrames
    /\ herb_rules_df \in RuleFrames
    /\ iso_forest \in ModelsFor(df_harvest)
    /\ weekly_harvest = <<>>
    /\ weekly = <<>>
    /\ contamination = <<>>
    /\ scan_logs = <<>>
    /\ scan_df = <<>>
    /\ rate_a = <<0, 1>>
    /\ rate_b = <<0, 1>>
    /\ est_a = <<>>
    /\ est_b = <<>>
    /\ metrics = <<>>
    /\ loaded = {}
    /\ request = <<>>
    /\ response = <<>>
    /\ X = NoMatrix
    /\ upload_folder = NoFiles
    /\ threads = <<>>

NextRerun ==
    \/ RunDetection
    \/ RunDetectionAgain
    \/ evaluate_model

SpecRerun == InitRerun /\ [][NextRerun]_vars

----------------------------------------------------------------------------
(* Properties of the harvest pipeline (specification Spec) *)

Detected == pc = "detected" /\ raised = "none"

Rows == 1..Len(weekly_harvest)

\* the rows of the ruleset for a plant type, and the one the engine consults
RuleIdx(plant) ==
    {k \in 1..Len(herb_rules_df) : herb_rules_df[k].plant_type = plant}
RuleSpecOf(plant) ==
    herb_rules_df[CHOOSE k \in RuleIdx(plant) : \A j \in RuleIdx(plant) : k <= j]

\* the events of the caller's frame that belong to weekly record w
GroupOf(w) ==
    {k \in 1..Len(df_harvest) :
        /\ df_harvest[k].farmer_id = w.farmer_id
        /\ df_harvest[k].plant_type = w.plant_type
        /\ df_harvest[k].year = w.year
        /\ df_harvest[k].week = w.week}

RECURSIVE SumQty(_)
SumQty(S) ==
    IF S = {} THEN 0
    ELSE LET k == CHOOSE x \in S : TRUE
         IN  df_harvest[k].quantity_harvested + SumQty(S \ {k})

Elems(s) == {s[k] : k \in 1..Len(s)}

\* C1: in every record returned by detect_weekly_anomalies, final_anomaly is
\* 1 exactly when the rule-violation list is non-empty or the outlier label
\* is OUTLIER, and 0 exactly when the list is empty and the label is NORMAL.
C1_FusionIsOr ==
    Detected =>
        \A i \in Rows :
            LET w == weekly_harvest[i]
            IN  /\ w.final_anomaly \in {0, 1}
                /\ w.iforest_anomaly \in {0, 1}
                /\ w.final_anomaly = 1 <=>
                       (w.rule_anomalies # <<>> \/ w.iforest_anomaly = 1)
                /\ w.final_anomaly = 0 <=>
                       (w.rule_anomalies = <<>> /\ w.iforest_anomaly = 0)

\* one record flagged by the outlier label alone, one by a rule alone
C1_Witness ==
    /\ Detected
    /\ \E i \in Rows : /\ weekly_harvest[i].rule_anomalies = <<>>
                       /\ weekly_harvest[i].iforest_anomaly = 1
                       /\ weekly_harvest[i].final_anomaly = 1
    /\ \E i \in Rows : /\ weekly_harvest[i].rule_anomalies # <<>>
                       /\ weekly_harvest[i].iforest_anomaly = 0
                       /\ weekly_harvest[i].final_anomaly = 1

\* C2: a (farmer, plant, ISO year, ISO week) group whose summed quantity
\* exceeds the plant's max_quantity_per_week, in an approved region, has the
\* violation list ["Over Quantity (<plant>)"] and final_anomaly 1, whatever
\* the outlier label is.
C2_OverQuantityFlagged ==
    Detected =>
        \A i \in Rows :
            LET w == weekly_harvest[i]
            IN  (/\ RuleIdx(w.plant_type) # {}
                 /\ SumQty(GroupOf(w)) > RuleSpecOf(w.plant_type).max_quantity_per_week
                 /\ w.region_id \in RuleSpecOf(w.plant_type).approved_regions)
                => /\ w.rule_anomalies = <<OverQuantity(w.plant_type)>>
                   /\ w.final_anomaly = 1

\* two events, neither over the limit alone, exceed it together; label NORMAL
C2_Witness ==
    /\ Detected
    /\ \E i \in Rows :
          LET w == weekly_harvest[i]
          IN  /\ RuleIdx(w.plant_type) # {}
              /\ Cardinality(GroupOf(w)) = 2
              /\ \A k \in GroupOf(w) :
                    df_harvest[k].quantity_harvested
                        <= RuleSpecOf(w.plant_type).max_quantity_per_week
              /\ SumQty(GroupOf(w)) > RuleSpecOf(w.plant_type).max_quantity_per_week
              /\ w.rule_anomalies = <<OverQuantity(w.plant_type)>>
              /\ w.iforest_anomaly = 0
              /\ w.final_anomaly = 1

\* C3: a record whose plant type has no row in the ruleset gets exactly the
\* one label 'Unknown Plant Type', whatever its quantity and region.
C3_UnknownPlantOnly ==
    Detected =>
        \A i \in Rows :
            RuleIdx(weekly_harvest[i].plant_type) = {}
                => weekly_harvest[i].rule_anomalies = <<UnknownPlant>>

\* an unmatched record next to a non-empty ruleset whose limit it exceeds
C3_Witness ==
    /\ Detected
    /\ herb_rules_df # <<>>
    /\ \E i \in Rows :
          /\ RuleIdx(weekly_harvest[i].plant_type) = {}
          /\ weekly_harvest[i].quantity_harvested
                 > herb_rules_df[1].max_quantity_per_week
          /\ weekly_harvest[i].region_id \notin herb_rules_df[1].approved_regions
          /\ weekly_harvest[i].rule_anomalies = <<UnknownPlant>>

\* C4: rule evaluation never raises, with an empty ruleset included, and with
\* an empty ruleset every record carries the unknown-plant violation.
C4_RuleEngineTotal ==
    /\ pc \in {"detected", "trained"} => raised # "IndexError"
    /\ (Detected /\ herb_rules_df = <<>>) =>
           \A i \in Rows : UnknownPlant \in Elems(weekly_harvest[i].rule_anomalies)

C4_Witness ==
    /\ Detected
    /\ herb_rules_df = <<>>
    /\ Len(weekly_harvest) = 2
    /\ \A i \in Rows : weekly_harvest[i].rule_anomalies = <<UnknownPlant>>

\* C5: for a record with a matching rule row the list holds the over-quantity
\* label iff quantity > max (strictly), the outside-region label iff the
\* region is not approved, nothing else, and over-quantity comes first.
C5_MatchedRuleLabels ==
    Detected =>
        \A i \in Rows :
            LET w    == weekly_harvest[i]
                over == OverQuantity(w.plant_type)
                out  == OutsideRegion(w.plant_type)
            IN  RuleIdx(w.plant_type) # {} =>
                  /\ over \in Elems(w.rule_anomalies) <=>
                        w.quantity_harvested
                            > RuleSpecOf(w.plant_type).max_quantity_per_week
                  /\ out \in Elems(w.rule_anomalies) <=>
                        w.region_id \notin RuleSpecOf(w.plant_type).approved_regions
                  /\ Len(w.rule_anomalies) <= 2
                  /\ w.rule_anomalies \in {<<>>, <<over>>, <<out>>, <<over, out>>}

\* one record with both labels in order, one exactly at the limit with none
C5_Witness ==
    /\ Detected
    /\ \E i \in Rows :
          weekly_harvest[i].rule_anomalies =
              <<OverQuantity(weekly_harvest[i].plant_type),
                OutsideRegion(weekly_harvest[i].plant_type)>>
    /\ \E i \in Rows :
          /\ RuleIdx(weekly_harvest[i].plant_type) # {}
          /\ weekly_harvest[i].quantity_harvested
                = RuleSpecOf(weekly_harvest[i].plant_type).max_quantity_per_week
          /\ weekly_harvest[i].rule_anomalies = <<>>

\* C6: the contamination handed to the outlier model at training time is
\* min(1.5 * r, 0.5), r being the fraction of weekly records of the training
\* batch with at least one rule violation (evaluated in float64, as the
\* program does).
Trained == pc = "trained" /\ raised = "none"

ViolatingRows ==
    {i \in 1..Len(weekly) :
        rule_based_anomalies_weekly(weekly[i], herb_rules_df).value # <<>>}

C6_ContaminationFormula ==
    Trained =>
        LET r      == FloatDiv(Cardinality(ViolatingRows), Len(weekly))
            scaled == Mul1_5(r)
        IN  /\ DLess(Half, scaled) => contamination = Half
            /\ ~DLess(Half, scaled) => contamination = scaled

\* a quarter of four weekly records violates a rule: contamination 0.375
C6_Witness ==
    /\ Trained
    /\ Len(weekly) = 4
    /\ Cardinality(ViolatingRows) = 1
    /\ contamination = FloatDiv(3, 8)

----------------------------------------------------------------------------
(* Properties of the contamination estimate (specification SpecEstimate) *)

Estimated == pc = "estimated"

RateLeq(a, b) == a[1] * b[2] <= b[1] * a[2]

\* the float64 value following x (x positive)
NextUp(x) == RoundEven(x.exp, x.hi, x.lo, 1, 1)

EstimateMonotoneBounded ==
    /\ RateLeq(rate_a, rate_b) => DLeq(est_a, est_b)
    /\ DLeq(DZero, est_a) /\ DLeq(est_a, Half)
    /\ rate_a[1] = 0 => est_a = DZero
    /\ rate_a = <<2, 5>> => est_a = Half

\* C7 as stated: monotone, within [0, 0.5], 0 -> 0, 0.2 -> 0.3, 0.4 -> 0.5
C7_AsStated ==
    Estimated =>
        /\ EstimateMonotoneBounded
        /\ rate_a = <<1, 5>> => est_a = FloatDiv(3, 10)

\* C7: the estimate is monotonic non-decreasing in the rate and lies in
\* [0, 0.5]; rate 0 gives 0, rate 0.4 gives 0.5, and rate 0.2 gives the
\* float64 value just above 0.3 (0.30000000000000004).
C7_EstimateProperties ==
    Estimated =>
        /\ EstimateMonotoneBounded
        /\ rate_a = <<1, 5>> => est_a = NextUp(FloatDiv(3, 10))

\* rate 0.2 against rate 0.4: 0.30000000000000004 below the ceiling 0.5
C7_Witness ==
    /\ Estimated
    /\ rate_a = <<1, 5>> /\ rate_b = <<2, 5>>
    /\ est_a # FloatDiv(3, 10)
    /\ DLess(FloatDiv(3, 10), est_a)
    /\ DLess(est_a, est_b)
    /\ est_b = Half

----------------------------------------------------------------------------
(* Properties of the scan-log preprocessor (specification SpecScan) *)

Preprocessed == pc = "preprocessed" /\ raised = "none"

ScanIdx == 1..Len(scan_df)

\* record i has no predecessor in its batch_id partition
FirstOfBatch(i) ==
    \A j \in 1..(i - 1) : scan_df[j].batch_id # scan_df[i].batch_id

\* the intervals observed in a set of records: those of records with a predecessor
Observed(S) == {scan_df[j].scan_interval_hours : j \in {k \in S : ~FirstOfBatch(k)}}

Partition(i) == {j \in ScanIdx : scan_df[j].batch_id = scan_df[i].batch_id}

MaxOf(S) == CHOOSE m \in S : \A x \in S : x <= m

\* C8: every output record of preprocess_scan_logs has a defined
\* scan_interval_hours and distance_km, also when every batch_id occurs once.
C8_NoNullFeatures ==
    Preprocessed =>
        \A i \in ScanIdx : /\ scan_df[i].scan_interval_hours # NaN
                           /\ scan_df[i].distance_km # NaN

\* C9: the first record of every batch_id partition has distance_km 0
\* whatever its coordinates, and a record with a predecessor gets a computed
\* distance to a record of its partition instead of the sentinel.
C9_FirstDistanceZero ==
    Preprocessed =>
        \A i \in ScanIdx :
            IF FirstOfBatch(i)
            THEN scan_df[i].distance_km = 0
            ELSE \E j \in 1..(i - 1) :
                    /\ scan_df[j].batch_id = scan_df[i].batch_id
                    /\ scan_df[i].distance_km =
                           geodesic_km(scan_df[i].lat, scan_df[i].lon,
                                       scan_df[j].lat, scan_df[j].lon)

\* a batch that starts away from latitude 0 and moves, after another batch
\* that ended elsewhere
C9_Witness ==
    /\ Preprocessed
    /\ \E i \in ScanIdx :
          /\ i > 1
          /\ FirstOfBatch(i)
          /\ scan_df[i].lat # 0
          /\ scan_df[i].lat # scan_df[i - 1].lat
          /\ scan_df[i].distance_km = 0
          /\ i + 1 \in ScanIdx
          /\ scan_df[i + 1].batch_id = scan_df[i].batch_id
          /\ scan_df[i + 1].distance_km = KmPerDegree

BatchRows(df, b) == {i \in 1..Len(df) : df[i].batch_id = b}

\* C11: preprocess_scan_logs returns one derived record per row of the CSV:
\* as many records as rows, and per batch_id as many records as the CSV has
\* rows of that batch (nothing dropped, nothing duplicated)
C11_OneRecordPerEvent ==
    Preprocessed =>
        /\ Len(scan_df) = Len(scan_logs)
        /\ \A b \in BatchIds :
               Cardinality(BatchRows(scan_df, b)) = Cardinality(BatchRows(scan_logs, b))

\* a CSV that is not in sorted order, holds the same row twice and has a
\* batch scanned only once has been preprocessed
C11_Witness ==
    /\ Preprocessed
    /\ Len(scan_logs) = 3
    /\ scan_logs[1] = scan_logs[3]
    /\ scan_logs[1].batch_id = "B2"
    /\ scan_logs[2].batch_id = "B1"
    /\ Len(scan_df) = 3

----------------------------------------------------------------------------
(* Properties of the API server (specification SpecServer) *)

Answered == pc = "answered"

\* a request that carries a collection of events: a JSON list or an upload
CarriesEvents ==
    request.kind \in {"json", "file"} /\ request.filename_ok

\* C12: a request to a detection endpoint whose collection of events is
\* empty is answered, with all models loaded, by a success response (an
\* empty result), not by an error
C12_EmptyInputNotAnError ==
    (/\ Answered
     /\ loaded = Globals
     /\ request.route \in {"/api/counterfeit/detect", "/api/harvest/detect"}
     /\ CarriesEvents
     /\ request.rows = <<>>)
    => response.code = 200 /\ response.status = "success"

----------------------------------------------------------------------------
(* Further properties of the harvest pipeline (specification Spec) *)

\* the Monday on or before a date (day 1 of the proleptic calendar is a
\* Monday): two dates lie in one ISO week, and so in one ISO year,
\* exactly when their Mondays coincide
WeekStart(ts) == Ordinal(ts) - ((Ordinal(ts) - 1) % 7)

SameWeeklyKey(a, b) ==
    /\ a.farmer_id = b.farmer_id
    /\ a.plant_type = b.plant_type
    /\ WeekStart(a.timestamp) = WeekStart(b.timestamp)

\* the records of a weekly frame that an event of the caller's frame went into
RecordsOf(wf, e) ==
    {k \in 1..Len(wf) :
        /\ wf[k].farmer_id = e.farmer_id
        /\ wf[k].plant_type = e.plant_type
        /\ wf[k].year = e.year
        /\ wf[k].week = e.week}

EventIdx == 1..Len(df_harvest)

WeeklyGrouping(wf) ==
    /\ \A i \in EventIdx : Cardinality(RecordsOf(wf, df_harvest[i])) = 1
    /\ \A k \in 1..Len(wf) : \E i \in EventIdx : k \in RecordsOf(wf, df_harvest[i])
    /\ \A i, j \in EventIdx :
          (RecordsOf(wf, df_harvest[i]) = RecordsOf(wf, df_harvest[j]))
              <=> SameWeeklyKey(df_harvest[i], df_harvest[j])
    /\ \A k \in 1..Len(wf) :
          wf[k].quantity_harvested =
              SumQty({i \in EventIdx : k \in RecordsOf(wf, df_harvest[i])})

\* C13: in detection and in training alike, every event goes into exactly
\* one weekly record, every weekly record has an event, two events go into
\* the same record exactly when they share farmer_id, plant_type and ISO
\* week (of the ISO year), and the record sums the quantities of just
\* those events
C13_IsoWeekGrouping ==
    /\ Detected => WeeklyGrouping(weekly_harvest)
    /\ Trained => WeeklyGrouping(weekly)

\* a training file with harvests of one farmer and plant on 30 December
\* 2024, 2 January 2025 and 6 January 2025: the first two make one record
\* (ISO 2025-W01), the third, of the same calendar month as the second,
\* another (ISO 2025-W02)
C13_Witness ==
    /\ Trained
    /\ Len(df_harvest) = 3
    /\ df_harvest[1].timestamp = [y |-> 2024, m |-> 12, d |-> 30]
    /\ df_harvest[2].timestamp = [y |-> 2025, m |-> 1, d |-> 2]
    /\ df_harvest[3].timestamp = [y |-> 2025, m |-> 1, d |-> 6]
    /\ \A i \in EventIdx : df_harvest[i].farmer_id = 1 /\ df_harvest[i].plant_type = "Tulsi"
    /\ Len(weekly) = 2
    /\ weekly[1].year = 2025 /\ weekly[1].week = 1
    /\ weekly[1].quantity_harvested =
           df_harvest[1].quantity_harvested + df_harvest[2].quantity_harvested
    /\ weekly[2].year = 2025 /\ weekly[2].week = 2

----------------------------------------------------------------------------
(* Properties of repeated detection and of evaluation (specification SpecRerun) *)

\* C14: a second run of detect_weekly_anomalies on the very objects the
\* first run was given (the frame as the first run left it, the same rules,
\* the same model) returns what the first run returned, field for field
C14_SecondRunIdentical ==
    [][(pc = "detected" /\ pc' = "detected_again")
          => (raised' = "none" /\ weekly_harvest' = weekly_harvest)]_vars

\* a second run has returned two weekly records, one with rule violations
\* and one labelled an outlier by the model
C14_Witness ==
    /\ pc = "detected_again"
    /\ raised = "none"
    /\ Len(weekly_harvest) = 2
    /\ \E i \in 1..2 : Len(weekly_harvest[i].rule_anomalies) > 0
    /\ \E i \in 1..2 : weekly_harvest[i].iforest_anomaly = 1
    /\ \E i \in 1..2 : weekly_harvest[i].final_anomaly = 0

\* C15: the call of detect_weekly_anomalies leaves the caller's harvest
\* frame, the ruleset and the model exactly as they were
C15_InputsUnchanged ==
    [][(pc = "start" /\ pc' = "detected")
          => (/\ df_harvest' = df_harvest
              /\ herb_rules_df' = herb_rules_df
              /\ iso_forest' = iso_forest)]_vars

\* the weekly frame detect_weekly_anomalies builds from the submitted logs
RequestWeekly == WeeklyAgg(WithWeekYear(request.rows))

\* the handler got as far as scoring, and the model rejected the batch
ModelFailed ==
    /\ Answered
    /\ request.route = "/api/harvest/detect"
    /\ loaded = Globals
    /\ CarriesEvents
    /\ request.rows # <<>>
    /\ request.columns = HarvestColumns
    /\ ~Unparsable(request.rows)
    /\ RequestWeekly # <<>>
    /\ FeaturesHaveNaN(RequestWeekly)
    /\ raised = "ValueError"

\* C16: when the model fails while scoring a batch, the answer is of
\* another kind than the answer to a failure anywhere else in the run, and
\* it carries the rule violations of the batch
C16_ModelFailureKeepsRules ==
    ModelFailed =>
        /\ response.error # "Error processing harvest anomaly detection"
        /\ "anomalies" \in DOMAIN response

\* a submitted batch with a structural defect: a required column is not
\* there, or the timestamp or the quantity of a log is missing or unparsable
Defective ==
    \/ request.columns # HarvestColumns
    \/ \E i \in 1..Len(request.rows) :
          \/ request.rows[i].timestamp \in {NaT, BadTimestamp}
          \/ request.rows[i].quantity_harvested = NaN

\* C17: a batch with a structural defect is answered with an error, never
\* with verdicts
C17_DefectAborts ==
    (/\ Answered
     /\ request.route = "/api/harvest/detect"
     /\ loaded = Globals
     /\ CarriesEvents
     /\ request.rows # <<>>
     /\ Defective)
    => response.code # 200

Evaluated == pc = "evaluated"

PredictedPositive == {i \in Rows : weekly_harvest[i].iforest_anomaly = 1}
RuleViolating == {i \in Rows : Len(weekly_harvest[i].rule_anomalies) > 0}
TruePositive == PredictedPositive \cap RuleViolating

\* C18: evaluate_model returns three scores for every detection result:
\* precision is 0 when the model predicts no positive, recall is 0 when no
\* record has a rule violation, F1 is 0 when there is no true positive
\* (otherwise precision and recall are the usual ratios), and the rule
\* label is 1 exactly for the records whose rule-violation list is non-empty
C18_ScoresWithoutDivisionFault ==
    Evaluated =>
        /\ \A i \in Rows :
               /\ weekly_harvest[i].rule_anomaly \in {0, 1}
               /\ weekly_harvest[i].rule_anomaly = 1 <=> i \in RuleViolating
        /\ PredictedPositive = {} => metrics[1] = <<0, 1>>
        /\ RuleViolating = {} => metrics[2] = <<0, 1>>
        /\ TruePositive = {} => metrics[3] = <<0, 1>>
        /\ PredictedPositive # {} =>
               metrics[1][1] * Cardinality(PredictedPositive)
                   = metrics[1][2] * Cardinality(TruePositive)
        /\ RuleViolating # {} =>
               metrics[2][1] * Cardinality(RuleViolating)
                   = metrics[2][2] * Cardinality(TruePositive)

\* a result of two weekly records has been evaluated in which the model
\* predicts no positive although one record breaks a rule
C18_Witness ==
    /\ Evaluated
    /\ Len(weekly_harvest) = 2
    /\ PredictedPositive = {}
    /\ Cardinality(RuleViolating) = 1
    /\ metrics = <<(<<0, 1>>), (<<0, 1>>), (<<0, 1>>)>>

\* C19: a non-empty list of well-formed scan logs posted as JSON to
\* /api/counterfeit/detect, the model being loaded, is answered 200 with
\* status 'success', total_scans the number of submitted logs and
\* suspicious_count at most total_scans, also when every log is of another
\* batch
C19_CounterfeitDetectSucceeds ==
    (/\ Answered
     /\ request.route = "/api/counterfeit/detect"
     /\ "counterfeit_model" \in loaded
     /\ request.kind = "json"
     /\ request.rows # <<>>)
    => /\ response.code = 200
       /\ response.status = "success"
       /\ response.total_scans = Len(request.rows)
       /\ response.suspicious_count <= response.total_scans

\* C20: a JSON body with a harvest_logs list posted to /api/harvest/analyze
\* is answered with status 200
C20_AnalyzeHarvestSucceeds ==
    (/\ Answered
     /\ request.route = "/api/harvest/analyze"
     /\ request.kind = "json"
     /\ request.rows # <<>>)
    => response.code = 200

----------------------------------------------------------------------------
(* Further properties of the scan-log preprocessor (specification SpecScan) *)

\* C21: the distance of a record that is not the first of its partition is
\* the distance to the record right before it in the sorted frame, also
\* when records of the batch share a timestamp
C21_DistanceToAdjacentRecord ==
    Preprocessed =>
        \A i \in ScanIdx :
            ~FirstOfBatch(i) =>
                scan_df[i].distance_km =
                    geodesic_km(scan_df[i].lat, scan_df[i].lon,
                                scan_df[i - 1].lat, scan_df[i - 1].lon)

LogIdx == 1..Len(scan_logs)

SameScanKey(a, b) == a.batch_id = b.batch_id /\ a.timestamp = b.timestamp

ScanKeyBefore(a, b) ==
    \/ BatchRank(a.batch_id) < BatchRank(b.batch_id)
    \/ a.batch_id = b.batch_id /\ a.timestamp < b.timestamp

\* where row i of the CSV belongs in the output: after the rows with a
\* smaller (batch_id, timestamp) and after the earlier rows with the same
SortedPos(i) ==
    Cardinality({j \in LogIdx : ScanKeyBefore(scan_logs[j], scan_logs[i])})
    + Cardinality({j \in 1..(i - 1) : SameScanKey(scan_logs[j], scan_logs[i])})
    + 1

InputAt(k) == CHOOSE i \in LogIdx : SortedPos(i) = k

\* C22: the output is in batch_id order, within a batch in timestamp order,
\* and rows of one batch with one timestamp keep their order in the CSV;
\* the interval of a record with a predecessor is the time since the
\* record before it in that order
C22_StableOrder ==
    Preprocessed =>
        /\ \A i \in LogIdx :
               /\ scan_df[SortedPos(i)].batch_id = scan_logs[i].batch_id
               /\ scan_df[SortedPos(i)].lat = scan_logs[i].lat
               /\ scan_df[SortedPos(i)].lon = scan_logs[i].lon
               /\ scan_df[SortedPos(i)].retailer_type
                      = retailer_type(scan_logs[i].retailer_id)
        /\ \A k \in ScanIdx :
               ~FirstOfBatch(k) =>
                   scan_df[k].scan_interval_hours =
                       scan_logs[InputAt(k)].timestamp
                           - scan_logs[InputAt(k - 1)].timestamp

\* a CSV in which a scan of B2 comes first and two scans of B1 at the same
\* hour but at different places follow: B1's scans are moved to the front
\* and keep their order
C22_Witness ==
    /\ Preprocessed
    /\ Len(scan_logs) = 3
    /\ scan_logs[1].batch_id = "B2"
    /\ scan_logs[2].batch_id = "B1" /\ scan_logs[3].batch_id = "B1"
    /\ scan_logs[2].timestamp = scan_logs[3].timestamp
    /\ scan_logs[2].lat = 1 /\ scan_logs[3].lat = 0
    /\ scan_df[1].batch_id = "B1" /\ scan_df[1].lat = 1
    /\ scan_df[2].batch_id = "B1" /\ scan_df[2].lat = 0
    /\ scan_df[2].scan_interval_hours = 0
    /\ scan_df[3].batch_id = "B2"

----------------------------------------------------------------------------
(* Properties of the weekly aggregation *)

RECURSIVE SumLat(_)
SumLat(S) ==
    IF S = {} THEN 0
    ELSE LET k == CHOOSE x \in S : TRUE
         IN  df_harvest[k].geo_lat + SumLat(S \ {k})

RECURSIVE SumLon(_)
SumLon(S) ==
    IF S = {} THEN 0
    ELSE LET k == CHOOSE x \in S : TRUE
         IN  df_harvest[k].geo_lon + SumLon(S \ {k})

FirstOf(S) == CHOOSE k \in S : \A j \in S : k <= j

\* C23: a weekly record's quantity is the sum over the events of its group
\* and of no others, its latitude and longitude are the arithmetic means
\* over those events, and its region is that of the group's first event in
\* input order
C23_GroupAggregates ==
    Detected =>
        \A r \in Rows :
            LET w == weekly_harvest[r]
                G == GroupOf(w)
            IN  /\ G # {}
                /\ w.quantity_harvested = SumQty(G)
                /\ w.geo_lat[1] * Cardinality(G) = w.geo_lat[2] * SumLat(G)
                /\ w.geo_lon[1] * Cardinality(G) = w.geo_lon[2] * SumLon(G)
                /\ w.region_id = df_harvest[FirstOf(G)].region_id

\* a week with two Tulsi lots of one farmer, the first from R1 at latitude
\* 10 and the second from R2 at latitude 12
C23_Witness ==
    /\ Detected
    /\ Len(df_harvest) = 2
    /\ df_harvest[1].region_id = "R1" /\ df_harvest[1].geo_lat = 10
    /\ df_harvest[2].region_id = "R2" /\ df_harvest[2].geo_lat = 12
    /\ Len(weekly_harvest) = 1
    /\ GroupOf(weekly_harvest[1]) = {1, 2}
    /\ weekly_harvest[1].quantity_harvested = 2
    /\ weekly_harvest[1].geo_lat = <<11, 1>>
    /\ weekly_harvest[1].region_id = "R1"

\* the claim as stated: the weekly records are in the order in which their
\* groups first appear in the input
C24_AsStated ==
    Detected =>
        \A r, q \in Rows :
            r < q => FirstOf(GroupOf(weekly_harvest[r]))
                        < FirstOf(GroupOf(weekly_harvest[q]))

WeeklyKeyBefore(a, b) ==
    \/ a.farmer_id < b.farmer_id
    \/ /\ a.farmer_id = b.farmer_id
       /\ PlantRank(a.plant_type) < PlantRank(b.plant_type)
    \/ /\ a.farmer_id = b.farmer_id
       /\ a.plant_type = b.plant_type
       /\ a.year < b.year
    \/ /\ a.farmer_id = b.farmer_id
       /\ a.plant_type = b.plant_type
       /\ a.year = b.year
       /\ a.week < b.week

\* C24: the weekly records are emitted in ascending order of the group key
\* (farmer_id, then plant_type, then year, then week), whatever the order
\* in which the groups' events appear in the input
C24_SortedKeyOrder ==
    Detected =>
        \A r, q \in Rows :
            r < q => WeeklyKeyBefore(weekly_harvest[r], weekly_harvest[q])

\* the input starts with a lot of farmer 2 and goes on with a lot of
\* farmer 1 of a later week; farmer 1's record is emitted first
C24_Witness ==
    /\ Detected
    /\ Len(df_harvest) = 2
    /\ df_harvest[1].farmer_id = 2
    /\ df_harvest[2].farmer_id = 1
    /\ df_harvest[1].week < df_harvest[2].week
    /\ Len(weekly_harvest) = 2
    /\ weekly_harvest[1].farmer_id = 1
    /\ weekly_harvest[2].farmer_id = 2

----------------------------------------------------------------------------
(* Properties of the feature matrix and of the harvest response *)

Prepared(column) ==
    IF column.name \in {"quantity_harvested", "distance_km"}
    THEN column.steps = <<"log1p", "fit_transform">>
    ELSE column.steps = <<"fit_transform">>

\* C25: in the harvest variant and in the scan variant alike, the matrix
\* handed to predict / decision_function has its magnitude column
\* (quantity, distance) log1p-transformed and every column standardized
\* on the batch being scored; no column reaches the model raw
C25_MatrixPrepared ==
    X # NoMatrix => \A c \in 1..Len(X.columns) : Prepared(X.columns[c])

HarvestDetected ==
    /\ Answered
    /\ request.route = "/api/harvest/detect"
    /\ response.code = 200

\* C26: in every successful answer of /api/harvest/detect, anomaly_count is
\* the number of weekly records with final_anomaly = 1 and is at most
\* total_weekly_harvests; it is at least the larger of rule_based_anomalies
\* and ml_based_anomalies and at most their sum; every anomaly returned
\* carries a rule violation or iforest_anomaly = 1
C26_ResponseCounts ==
    HarvestDetected =>
        LET stats == response.summary_stats
        IN  /\ response.total_weekly_harvests = Len(weekly_harvest)
            /\ response.anomaly_count =
                   Cardinality({i \in Rows : weekly_harvest[i].final_anomaly = 1})
            /\ response.anomaly_count <= response.total_weekly_harvests
            /\ stats.rule_based_anomalies <= response.anomaly_count
            /\ stats.ml_based_anomalies <= response.anomaly_count
            /\ response.anomaly_count
                   <= stats.rule_based_anomalies + stats.ml_based_anomalies
            /\ Len(response.anomalies) = response.anomaly_count
            /\ \A k \in 1..Len(response.anomalies) :
                   \/ Len(response.anomalies[k].rule_anomalies) > 0
                   \/ response.anomalies[k].iforest_anomaly = 1

\* two weekly records are answered, one of them clean and the other both
\* breaking a rule and isolated by the model: one anomaly, counted once by
\* each signal
C26_Witness ==
    /\ HarvestDetected
    /\ response.total_weekly_harvests = 2
    /\ response.anomaly_count = 1
    /\ response.summary_stats.rule_based_anomalies = 1
    /\ response.summary_stats.ml_based_anomalies = 1

----------------------------------------------------------------------------
(* Properties of /api/fraud/detect_batch *)

FraudScored ==
    /\ Answered
    /\ request.route = "/api/fraud/detect_batch"
    /\ response.code = 200

\* C27: in every answer of /api/fraud/detect_batch, risk_level 'high' comes
\* with anomaly_detected true and 'low' with anomaly_detected false,
\* 'high_scan_frequency' and 'low_scan_activity' are never both among the
\* factors, and fraud_score is 0 exactly when there are no factors
C27_FraudResponseConsistent ==
    FraudScored =>
        /\ response.risk_level = "high" => response.anomaly_detected
        /\ response.risk_level = "low" => ~response.anomaly_detected
        /\ ~({"high_scan_frequency", "low_scan_activity"}
                \subseteq Elems(response.factors))
        /\ response.fraud_score = DZero <=> response.factors = <<>>

\* a batch older than a year with more than 50 scans at inconsistent
\* places: score 0.75, high risk, anomaly detected
C27_Witness ==
    /\ FraudScored
    /\ Len(response.factors) = 3
    /\ response.fraud_score = FloatDiv(3, 4)
    /\ response.risk_level = "high"
    /\ response.anomaly_detected

----------------------------------------------------------------------------
(* Properties of the upload folder (specifications SpecServer, SpecConcurrent) *)

\* the answers a request can get when it is the only one being handled
AloneResponses(req) ==
    IF req.rows = <<>>
    THEN {CaughtResponse(CaughtMessage(req), "EmptyDataError")}
    ELSE IF req.route = "/api/counterfeit/analyze"
    THEN {AnalysisSuccess(ScanFrame(req.rows))}
    ELSE LET df == ScanFrame(req.rows)
         IN  {counterfeit_scored(df, failure, IF failure = "none" THEN flagged ELSE {}) :
                 failure \in ScoringOutcomes(df),
                 flagged \in SUBSET {ScanFeatures(df[i]) : i \in 1..Len(df)}}

\* C28: of two requests handled at the same time, each is answered from its
\* own scan logs and as it would be answered alone: the frame a thread
\* preprocessed is the frame of its own rows, and its answer is one the
\* request gets when no other request is in progress
C28_RequestsIsolated ==
    \A t \in DOMAIN threads :
        /\ threads[t].pc \in {"preprocessed", "removed", "done"}
               /\ threads[t].df # <<>>
               => threads[t].df = ScanFrame(threads[t].req.rows)
        /\ threads[t].pc = "done"
               => threads[t].response \in AloneResponses(threads[t].req)

\* C29: once /api/counterfeit/detect, /api/counterfeit/analyze or
\* /api/harvest/detect has answered, with a success or with the error of a
\* preprocessing failure, the file the handler wrote to the upload folder
\* is gone
C29_TempFileGone ==
    (/\ Answered
     /\ request.route \in {"/api/counterfeit/detect", "/api/counterfeit/analyze",
                           "/api/harvest/detect"})
        => DOMAIN upload_folder = {}

\* C30: an upload with an empty file name or an extension other than csv
\* or json, sent to /api/counterfeit/detect or /api/harvest/detect with the
\* models loaded, is answered 400 and raises nothing
C30_BadUploadRejected ==
    (/\ Answered
     /\ request.route \in {"/api/counterfeit/detect", "/api/harvest/detect"}
     /\ request.kind = "file"
     /\ ~request.filename_ok
     /\ loaded = Globals)
        => response.code = 400 /\ raised = "none"

====
